---------------------------- MODULE Spec2Model ----------------------------
(***************************************************************************)
(* Model of the Circle plugin: the header parser (src/utils/parseHeaders), *)
(* the CircleView edit controller, text patcher, layout and selection      *)
(* (CircleView.ts) and the command surface (main.ts).                      *)
(*                                                                         *)
(* Text is a sequence of one-character strings.  "\n" is the line feed,    *)
(* "\t" a tab, "\r" a carriage return.                                     *)
(***************************************************************************)
EXTENDS Integers, Sequences, FiniteSets, TLC

VARIABLES
    \* ---- buildHeaderHierarchy, run one loop iteration at a time ----
    headers,          \* the flat header list handed to buildHeaderHierarchy
    pos,              \* number of headers the for-loop has consumed
    currentParents,   \* the ancestor stack (node ids, 0 = synthetic root)
    result,           \* children lists built so far: node id -> Seq(node id)
    \* ---- the document store and the view ----
    doc,              \* text of the markdown file held by the vault
    root,             \* this.root (NoRoot before the first setState)
    sectionHitboxes,  \* this.sectionHitboxes
    selectedSection,  \* this.selectedSection (NoSection = undefined)
    editingInput,     \* this.editingInput (NoInput = null)
    editStartNode,    \* this.editStartNode (NoNode = null)
    tasks,            \* async commits suspended at an await, oldest first
    lastEvent,        \* the commit, cancel, refused command or store
                      \* completion handled in the last step and the path its
                      \* handler took ("other" after any other event)
    commits,          \* number of commits handed to the store so far
    canvas            \* width and height of this.canvas, in pixels

parseVars == <<headers, pos, currentParents, result>>
viewVars  == <<doc, root, sectionHitboxes, selectedSection, editingInput,
               editStartNode, tasks, lastEvent, commits, canvas>>
vars == <<headers, pos, currentParents, result, doc, root, sectionHitboxes,
          selectedSection, editingInput, editStartNode, tasks, lastEvent,
          commits, canvas>>

-----------------------------------------------------------------------------
(* Bounds of the model *)

\* longest header list given to buildHeaderHierarchy in ParseSpec
MaxHeaders == 4

\* most lines the document may grow to (inserts are not offered beyond it)
MaxLines == 6

\* most commits suspended at an await at the same time
MaxTasks == 2

\* most commits handed to the store in one run; no further edit session
\* is opened once they are used up
MaxCommits == 2

\* longest run of "#" a line of LineSpec starts with
MaxMarker == 7

\* most characters a line of LineSpec has after its "#"
MaxRest == 3

-----------------------------------------------------------------------------
(* Characters and strings *)

\* JavaScript \s and String.prototype.trim whitespace, within the alphabet
IsSpace(c) == c \in {" ", "\t", "\r"}

\* characters the regex dot does not match
IsLineTerminator(c) == c \in {"\n", "\r"}

Max(a, b) == IF a >= b THEN a ELSE b

\* "#".repeat(n)
RECURSIVE Hashes(_)
Hashes(n) == IF n <= 0 THEN <<>> ELSE <<"#">> \o Hashes(n - 1)

\* number of leading "#" of a line: while (line[count] === "#") count++
RECURSIVE CountHashes(_)
CountHashes(line) ==
    IF line # <<>> /\ Head(line) = "#" THEN 1 + CountHashes(Tail(line)) ELSE 0

\* line.substring(n)
Substring(line, n) ==
    IF n >= Len(line) THEN <<>> ELSE SubSeq(line, n + 1, Len(line))

\* line.startsWith(prefix)
StartsWith(line, prefix) ==
    /\ Len(line) >= Len(prefix)
    /\ SubSeq(line, 1, Len(prefix)) = prefix

RECURSIVE TrimLeft(_)
TrimLeft(s) == IF s # <<>> /\ IsSpace(Head(s)) THEN TrimLeft(Tail(s)) ELSE s

RECURSIVE TrimRight(_)
TrimRight(s) ==
    IF s # <<>> /\ IsSpace(s[Len(s)]) THEN TrimRight(SubSeq(s, 1, Len(s) - 1))
    ELSE s

\* String.prototype.trim
Trim(s) == TrimRight(TrimLeft(s))

\* content.split("\n")
RECURSIVE Split(_)
Split(text) ==
    IF \A i \in 1..Len(text) : text[i] # "\n" THEN <<text>>
    ELSE LET k == CHOOSE i \in 1..Len(text) :
                      /\ text[i] = "\n"
                      /\ \A j \in 1..(i - 1) : text[j] # "\n"
         IN  <<SubSeq(text, 1, k - 1)>> \o Split(Substring(text, k))

\* lines.join("\n")
RECURSIVE Join(_)
Join(lines) ==
    IF Len(lines) = 0 THEN <<>>
    ELSE IF Len(lines) = 1 THEN lines[1]
    ELSE lines[1] \o <<"\n">> \o Join(Tail(lines))

-----------------------------------------------------------------------------
(* parseHeaders.ts *)

\* the lengths s of the \s+ match for which /^(#{1,6})\s+(.+)$/ matches
\* line, n being the number of "#" the first group takes
HeaderMatches(line, n) ==
    { s \in 1..(Len(line) - n - 1) :
        /\ \A i \in (n + 1)..(n + s) : IsSpace(line[i])
        /\ \A i \in (n + s + 1)..Len(line) : ~IsLineTerminator(line[i]) }

\* line.match(headerRegex): the regex is greedy, so \s+ takes the longest
\* run of whitespace that still leaves (.+) a non-empty rest of the line
IsHeaderLine(line) ==
    LET n == CountHashes(line)
    IN  n >= 1 /\ n <= 6 /\ HeaderMatches(line, n) # {}

\* a match whose second group starts right after the "#"
HeaderOfWithSeparator(line) ==
    [level |-> CountHashes(line), title |-> Substring(line, CountHashes(line))]

\* { level: match[1].length, title: match[2] }
HeaderOf(line) ==
    LET n == CountHashes(line)
        S == HeaderMatches(line, n)
        s == CHOOSE x \in S : \A y \in S : y <= x
    IN  [level |-> n, title |-> Substring(line, n + s)]

\* the for-loop of parseHeaders: the headers of the lines, in order
RECURSIVE HeadersOfLines(_)
HeadersOfLines(lines) ==
    IF lines = <<>> THEN <<>>
    ELSE (IF IsHeaderLine(Head(lines)) THEN <<HeaderOf(Head(lines))>> ELSE <<>>)
         \o HeadersOfLines(Tail(lines))

\* level of a stack entry: the synthetic root has level 0
LevelOf(hs, id) == IF id = 0 THEN 0 ELSE hs[id].level

\* the pop loop with > in place of >=
PopWhileStrict(hs, stack, level) ==
    LET RECURSIVE P(_)
        P(st) == IF LevelOf(hs, st[Len(st)]) > level
                 THEN P(SubSeq(st, 1, Len(st) - 1)) ELSE st
    IN  P(stack)

\* while (currentParents[currentParents.length - 1].level >= header.level)
\*     currentParents.pop();
PopWhile(hs, stack, level) ==
    LET RECURSIVE P(_)
        P(st) == IF LevelOf(hs, st[Len(st)]) >= level
                 THEN P(SubSeq(st, 1, Len(st) - 1)) ELSE st
    IN  P(stack)

\* the iteration with a synthetic root of level 1: a header of level 1 pops
\* the root as well and then goes to the result directly
FoldStepRootLevelOne(hs, st, i) ==
    LET RECURSIVE P(_)
        P(s) == IF /\ s # <<>>
                   /\ (IF s[Len(s)] = 0 THEN 1 ELSE hs[s[Len(s)]].level)
                          >= hs[i].level
                THEN P(SubSeq(s, 1, Len(s) - 1)) ELSE s
        popped == P(st.stack)
        top    == IF popped = <<>> THEN 0 ELSE popped[Len(popped)]
    IN  [stack |-> Append(popped, i),
         kids  |-> [st.kids EXCEPT ![top] = Append(@, i)]]

\* the iteration without the pop loop: the header goes under the stack's top
FoldStepNoPop(hs, st, i) ==
    LET top == st.stack[Len(st.stack)]
    IN  [stack |-> Append(st.stack, i),
         kids  |-> [st.kids EXCEPT ![top] = Append(@, i)]]

\* one iteration of the for-loop of buildHeaderHierarchy, for header i
FoldStep(hs, st, i) ==
    LET popped == PopWhile(hs, st.stack, hs[i].level)
        top    == popped[Len(popped)]
    IN  [stack |-> Append(popped, i),
         kids  |-> [st.kids EXCEPT ![top] = Append(@, i)]]

\* state of buildHeaderHierarchy before the loop
FoldInit(hs) == [stack |-> <<0>>, kids |-> [id \in 0..Len(hs) |-> <<>>]]

RECURSIVE FoldFrom(_, _, _)
FoldFrom(hs, st, i) ==
    IF i > Len(hs) THEN st ELSE FoldFrom(hs, FoldStep(hs, st, i), i + 1)

\* buildHeaderHierarchy(headers): the children list of every node; node id
\* i is the i-th header, node 0 the root whose children are the result
buildHeaderHierarchy(hs) == FoldFrom(hs, FoldInit(hs), 1).kids

\* parseHeaders(markdown), as the flat node list and its children lists
parseHeaders(markdown) ==
    LET hs == HeadersOfLines(Split(markdown))
    IN  [nodes |-> hs, kids |-> buildHeaderHierarchy(hs)]

-----------------------------------------------------------------------------
(* CircleView.ts: values *)

\* 2 * Math.PI, in angle units (angles are integers, 5040 units a turn)
TwoPi == 5040

NoRoot    == [loaded |-> FALSE, title |-> <<>>, nodes |-> <<>>,
              kids |-> [id \in 0..0 |-> <<>>]]
NoNode    == [gen |-> -1, idx |-> 0, level |-> 0, title |-> <<>>]
NoSection == [startAngle |-> -1, endAngle |-> -1, innerRadius |-> -1,
              outerRadius |-> -1, title |-> <<>>, centerX |-> -1,
              centerY |-> -1]
\* opened is bookkeeping of the model: the number of commits handed to the
\* store before the session of the input began, which names the session
NoInput   == [exists |-> FALSE, display |-> "", mode |-> "", value |-> <<>>,
              opened |-> 0]

\* this.markdownFile.basename
Basename == <<"F">>

\* canvas.width and canvas.height of a canvas element nobody resized
DefaultCanvas == [width |-> 300, height |-> 150]

\* { level: 0, title: basename || "Root", children: parseHeaders(markdown) }
TreeOf(markdown) ==
    LET p == parseHeaders(markdown)
    IN  [loaded |-> TRUE, title |-> Basename, nodes |-> p.nodes,
         kids |-> p.kids]

NodeTitle(tree, id) == IF id = 0 THEN tree.title ELSE tree.nodes[id].title
NodeLevel(tree, id) == IF id = 0 THEN 0 ELSE tree.nodes[id].level

\* a reference to node id of the tree that is this.root now (gen 0)
RefTo(tree, id) ==
    [gen |-> 0, idx |-> id, level |-> NodeLevel(tree, id),
     title |-> NodeTitle(tree, id)]

\* findNodeBySection(node, title): pre-order search, the node itself first;
\* the node id found, or -1 for null
RECURSIVE findNodeBySection(_, _, _)
findNodeBySection(tree, id, title) ==
    IF NodeTitle(tree, id) = title THEN id
    ELSE LET RECURSIVE Among(_)
             Among(ks) ==
                 IF ks = <<>> THEN -1
                 ELSE LET found == findNodeBySection(tree, Head(ks), title)
                      IN  IF found # -1 THEN found ELSE Among(Tail(ks))
         IN  Among(tree.kids[id])

\* findMaxDepth(node)
RECURSIVE findMaxDepth(_, _)
findMaxDepth(tree, id) ==
    IF tree.kids[id] = <<>> THEN 1
    ELSE LET RECURSIVE MaxOver(_)
             MaxOver(ks) ==
                 IF ks = <<>> THEN 0
                 ELSE Max(findMaxDepth(tree, Head(ks)), MaxOver(Tail(ks)))
         IN  MaxOver(tree.kids[id]) + 1

\* a first ring that starts at the centre, not at the disc of the file
innerRadiusFromCentre(radiusStep, depth) == radiusStep * depth

\* const innerRadius = depth === 0 ? radiusStep * 0.5 : radiusStep * depth
innerRadiusOf(radiusStep, depth) ==
    IF depth = 0 THEN (radiusStep * 5) \div 10 ELSE radiusStep * depth

\* a drawHeaderCircles that hands its own span, not the child's, to the
\* recursive call
RECURSIVE drawHeaderCirclesOwnSpan(_, _, _, _, _, _, _, _)
drawHeaderCirclesOwnSpan(tree, id, centerX, centerY, radiusStep, depth, startAngle, endAngle) ==
    LET ks == tree.kids[id]
        radius == radiusStep * (depth + 1)
        anglePerChild == (endAngle - startAngle) \div Len(ks)
        innerRadius == innerRadiusOf(radiusStep, depth)
        RECURSIVE Loop(_)
        Loop(i) ==
            IF i >= Len(ks) THEN <<>>
            ELSE LET childStartAngle == startAngle + (anglePerChild * i)
                     childEndAngle   == childStartAngle + anglePerChild
                 IN  << [startAngle  |-> childStartAngle,
                         endAngle    |-> childEndAngle,
                         innerRadius |-> innerRadius,
                         outerRadius |-> radius,
                         title       |-> NodeTitle(tree, ks[i + 1]),
                         centerX     |-> centerX,
                         centerY     |-> centerY] >>
                     \o drawHeaderCirclesOwnSpan(tree, ks[i + 1], centerX,
                                                 centerY, radiusStep, depth + 1,
                                                 startAngle, endAngle)
                     \o Loop(i + 1)
    IN  IF Len(ks) = 0 THEN <<>> ELSE Loop(0)

\* drawHeaderCircles(ctx, node, centerX, centerY, radiusStep, colors, depth,
\* startAngle, endAngle): the hitboxes it pushes, in the order pushed.
\* Lengths are in 1/1000 pixel.
RECURSIVE drawHeaderCircles(_, _, _, _, _, _, _, _)
drawHeaderCircles(tree, id, centerX, centerY, radiusStep, depth, startAngle, endAngle) ==
    LET ks == tree.kids[id]
        radius == radiusStep * (depth + 1)
        anglePerChild == (endAngle - startAngle) \div Len(ks)
        innerRadius == innerRadiusOf(radiusStep, depth)
        RECURSIVE Loop(_)
        Loop(i) ==
            IF i >= Len(ks) THEN <<>>
            ELSE LET childStartAngle == startAngle + (anglePerChild * i)
                     childEndAngle   == childStartAngle + anglePerChild
                 IN  << [startAngle  |-> childStartAngle,
                         endAngle    |-> childEndAngle,
                         innerRadius |-> innerRadius,
                         outerRadius |-> radius,
                         title       |-> NodeTitle(tree, ks[i + 1]),
                         centerX     |-> centerX,
                         centerY     |-> centerY] >>
                     \o drawHeaderCircles(tree, ks[i + 1], centerX, centerY,
                                          radiusStep, depth + 1,
                                          childStartAngle, childEndAngle)
                     \o Loop(i + 1)
    IN  IF Len(ks) = 0 THEN <<>> ELSE Loop(0)

\* const maxRadius = Math.max(width, height) / 2 * 0.95, in 1/1000 pixel
MaxRadius(surface) ==
    ((((Max(surface.width, surface.height) * 1000) \div 2) * 95) \div 100)

\* const radiusStep = maxDepth > 1 ? maxRadius / maxDepth : maxRadius
RadiusStep(surface, tree) ==
    LET maxDepth == findMaxDepth(tree, 0)
    IN  IF maxDepth > 1 THEN MaxRadius(surface) \div maxDepth
        ELSE MaxRadius(surface)

\* ctx.arc(centerX, centerY, radiusStep * 0.5, 0, 2 * Math.PI): the radius
\* of the disc drawn for the file
RootDiscRadius(surface, tree) == (RadiusStep(surface, tree) * 5) \div 10

\* const MIN_ARC_LENGTH = 40, in pixels
MIN_ARC_LENGTH == 40

\* const arcLength = anglePerChild * textRadius with
\* textRadius = radius - (radiusStep * 0.35), for the section pushed with
\* these angles and this outer radius; in 1/1000 pixel, with 355/113 for
\* Math.PI
arcLength(section, radiusStep) ==
    LET textRadius == section.outerRadius - ((radiusStep * 35) \div 100)
        anglePerChild == section.endAngle - section.startAngle
    IN  ((((anglePerChild * textRadius) \div TwoPi) * 710) \div 113)

\* if (arcLength >= MIN_ARC_LENGTH) { ... this.drawArcText(...) ... }: a
\* label is drawn for the section
labelDrawn(section, radiusStep) ==
    arcLength(section, radiusStep) >= MIN_ARC_LENGTH * 1000

\* a drawHeaderCircles that pushes a hitbox only for a section it labels
pushedLabelledOnly(hitboxes, radiusStep) ==
    SelectSeq(hitboxes, LAMBDA section : labelDrawn(section, radiusStep))

\* this.sectionHitboxes.push({...}) after the label: every section is
\* pushed, with or without a label
pushed(hitboxes, radiusStep) == hitboxes

\* drawCircleVisualization(canvas, root): the new this.sectionHitboxes
drawCircleVisualization(surface, tree) ==
    LET centerX   == (surface.width * 1000) \div 2
        centerY   == (surface.height * 1000) \div 2
    IN  pushed(drawHeaderCircles(tree, 0, centerX, centerY,
                                 RadiusStep(surface, tree), 0, 0, TwoPi),
               RadiusStep(surface, tree))

\* a redraw() that pushes onto the list of the frame before
redrawAccumulating(tree, hitboxes) ==
    IF tree.loaded THEN hitboxes \o drawCircleVisualization(canvas, tree)
    ELSE hitboxes

\* redraw(): this.sectionHitboxes afterwards (the canvas always exists once
\* the view is open)
redraw(tree, hitboxes) ==
    IF tree.loaded THEN drawCircleVisualization(canvas, tree)
    ELSE hitboxes

-----------------------------------------------------------------------------
(* CircleView.ts: the text patcher *)

\* for (let i = 0; ...) if (line.startsWith(headerPrefix) &&
\*     line.substring(headerPrefix.length).trim() === title) { ...; break; }
\* the 0-based index of the first such line, -1 when there is none
FindHeaderLine(lines, level, title) ==
    LET headerPrefix == Hashes(level) \o <<" ">>
        RECURSIVE Scan(_)
        Scan(i) ==
            IF i >= Len(lines) THEN -1
            ELSE IF /\ StartsWith(lines[i + 1], headerPrefix)
                    /\ Trim(Substring(lines[i + 1], Len(headerPrefix))) = title
                 THEN i
                 ELSE Scan(i + 1)
    IN  Scan(0)

\* the scan with count < level in place of count <= level
NextSectionStartStrict(lines, insertPosition, level) ==
    LET RECURSIVE Scan(_)
        Scan(i) ==
            IF i >= Len(lines) THEN Len(lines)
            ELSE IF /\ StartsWith(lines[i + 1], <<"#">>)
                    /\ CountHashes(lines[i + 1]) < level
                 THEN i
                 ELSE Scan(i + 1)
    IN  Scan(insertPosition + 1)

\* the sibling branch of insertNewHeader: the 0-based index of the first
\* line after insertPosition that starts with "#" and has at most level
\* leading "#", lines.length when there is none
NextSectionStart(lines, insertPosition, level) ==
    LET RECURSIVE Scan(_)
        Scan(i) ==
            IF i >= Len(lines) THEN Len(lines)
            ELSE IF /\ StartsWith(lines[i + 1], <<"#">>)
                    /\ CountHashes(lines[i + 1]) <= level
                 THEN i
                 ELSE Scan(i + 1)
    IN  Scan(insertPosition + 1)

\* a splice that deletes the line at the insert position
\* (lines.splice(at, 1, line))
SpliceOver(lines, at, line) ==
    SubSeq(lines, 1, at) \o <<line>> \o SubSeq(lines, at + 2, Len(lines))

\* lines.splice(at, 0, line)
Splice(lines, at, line) ==
    SubSeq(lines, 1, at) \o <<line>> \o SubSeq(lines, at + 1, Len(lines))

\* updateMarkdownFile after the read: headerLine and, when it is >= 0, the
\* text handed to vault.modify
RenamedContent(content, level, title, newTitle) ==
    LET lines      == Split(content)
        headerLine == FindHeaderLine(lines, level, title)
    IN  [found |-> headerLine >= 0,
         newContent |->
             IF headerLine >= 0
             THEN Join([lines EXCEPT ![headerLine + 1] =
                            Hashes(level) \o <<" ">> \o newTitle])
             ELSE content]

\* the insert position without the insertPosition++ of the child branch
InsertPositionAtHeader(lines, found, relLevel, mode) ==
    IF mode = "child" THEN found
    ELSE NextSectionStart(lines, found, relLevel)

\* insertNewHeader: where the new line goes, found being the index of the
\* reference header (insertPosition++ for a child, the end of the section
\* for a sibling)
InsertPosition(lines, found, relLevel, mode) ==
    IF mode = "child" THEN found + 1
    ELSE NextSectionStart(lines, found, relLevel)

\* insertNewHeader after the read: whether the reference header was found
\* (the function throws when it was not) and the text handed to vault.modify
InsertedContent(content, level, title, relLevel, relTitle, mode) ==
    LET lines == Split(content)
        found == FindHeaderLine(lines, relLevel, relTitle)
        insertPosition == InsertPosition(lines, found, relLevel, mode)
        newHeaderLine == Hashes(level) \o <<" ">> \o title
    IN  [found |-> found # -1,
         newContent |->
             IF found # -1
             THEN Join(Splice(lines, insertPosition, newHeaderLine))
             ELSE content]

-----------------------------------------------------------------------------
(* CircleView.ts: node references held across a reparse *)

\* A reference keeps the identity of its node: gen 0 is a node of the tree
\* that is this.root, gen g > 0 a node of a tree that was replaced; only
\* equality of gen matters, so the gens in use are kept as 1..k.
RefsOf(esn, ts) == {esn} \cup {ts[i].node : i \in 1..Len(ts)}

Renumbered(r, refs) ==
    IF r.gen <= 0 THEN r
    ELSE [r EXCEPT !.gen =
              Cardinality({x.gen : x \in {y \in refs : y.gen > 0 /\ y.gen <= r.gen}})]

\* the reference after this.root was replaced by a new tree
Aged(r) == IF r.gen >= 0 THEN [r EXCEPT !.gen = @ + 1] ELSE r

AgedTasks(ts) == [i \in 1..Len(ts) |-> [ts[i] EXCEPT !.node = Aged(@)]]

\* r after target.title = title: r sees it when it is the same node
Retitled(r, target, title) ==
    IF r.gen >= 0 /\ r.gen = target.gen /\ r.idx = target.idx
    THEN [r EXCEPT !.title = title] ELSE r

RetitledTasks(ts, target, title) ==
    [i \in 1..Len(ts) |-> [ts[i] EXCEPT !.node = Retitled(@, target, title)]]

\* this.root after target.title = title
RetitledRoot(tree, target, title) ==
    IF target.gen # 0 THEN tree
    ELSE IF target.idx = 0 THEN [tree EXCEPT !.title = title]
    ELSE [tree EXCEPT !.nodes[target.idx].title = title]

\* the new values of this.editStartNode and of the suspended commits
SetRefs(esn, ts) ==
    LET refs == RefsOf(esn, ts)
    IN  /\ editStartNode' = Renumbered(esn, refs)
        /\ tasks' = [i \in 1..Len(ts) |->
                        [ts[i] EXCEPT !.node = Renumbered(@, refs)]]

RemoveAt(ts, i) == SubSeq(ts, 1, i - 1) \o SubSeq(ts, i + 1, Len(ts))

Event(cmd, outcome) == [cmd |-> cmd, outcome |-> outcome]

-----------------------------------------------------------------------------
(* Inputs *)

\* documents the vault may hold when the view opens, as lines
InitDocs ==
    { << <<"#"," ","A">>, <<"#","#"," ","B">>, <<"t","e","x","t">>, <<"#"," ","C">>,
         <<>> >>,
      << <<"#"," ","A">>, <<"#","#","#"," ","A">>, <<"#","#"," ","F">> >>,
      << <<"#","#"," ","B"," ">>, <<"#","#"," ","B">> >>,
      << <<"#","#"," "," ","B">>, <<"#","t">>, <<"#","\t","A">> >> }

\* texts the user may type into the input
InputTexts == { <<" ","N"," ">>, <<" ">> }

\* header lists buildHeaderHierarchy is run on in ParseSpec: every list of
\* at most MaxHeaders headers with levels 1..6, the i-th titled by position
TitleAt(i) == << <<"A">>, <<"B">>, <<"C">>, <<"D">>, <<"E">>, <<"G">> >>[i]

HeaderLists ==
    UNION { { [i \in 1..n |-> [level |-> lv[i], title |-> TitleAt(i)]] :
                lv \in [1..n -> 1..6] } : n \in 0..MaxHeaders }

-----------------------------------------------------------------------------
(* CircleView.ts: the edit controller *)

\* isEditingActive()
isEditingActive ==
    editingInput.exists /\ editingInput.display # "none"

\* a hideEditInput() that resets the mode and leaves the input shown
HiddenInputShown(inp) ==
    IF inp.exists THEN [inp EXCEPT !.mode = "", !.opened = 0] ELSE inp

\* what hideEditInput() does to this.editingInput
HiddenInput(inp) ==
    IF inp.exists
    THEN [inp EXCEPT !.display = "none", !.mode = "", !.opened = 0]
    ELSE inp

\* a hideEditInput() that leaves this.editStartNode as it is
hideEditInputKeepAnchor(ts) ==
    /\ editingInput' = HiddenInput(editingInput)
    /\ SetRefs(editStartNode, ts)

\* hideEditInput(), ts being the commits still suspended afterwards
hideEditInput(ts) ==
    /\ editingInput' = HiddenInput(editingInput)
    /\ SetRefs(NoNode, ts)

\* showEditInput() (mode "edit") and showCreateHeaderInput(mode)
showInput(cmd, mode) ==
    LET id == IF selectedSection = NoSection THEN -1
              ELSE findNodeBySection(root, 0, selectedSection.title)
    IN  IF id = -1
        THEN /\ lastEvent' = Event("other", "")
             /\ UNCHANGED <<doc, root, sectionHitboxes, selectedSection,
                            editingInput, editStartNode, tasks>>
        ELSE /\ editingInput' =
                    [exists |-> TRUE, display |-> "block", mode |-> mode,
                     value |-> IF mode = "edit" THEN selectedSection.title
                               ELSE <<>>,
                     opened |-> commits]
             /\ SetRefs(RefTo(root, id), tasks)
             /\ lastEvent' = Event("other", "")
             /\ UNCHANGED <<doc, root, sectionHitboxes, selectedSection>>

\* the test of saveEditChanges without the comparison to the old title
IsNoOpTitleEmptyOnly(newTitle, title) == newTitle = <<>>

\* if (!newTitle || newTitle === this.editStartNode.title)
IsNoOpTitle(newTitle, title) == newTitle = <<>> \/ newTitle = title

NewTask(kind, level, newTitle) ==
    [kind |-> kind, pc |-> "read", node |-> editStartNode, level |-> level,
     newTitle |-> newTitle, content |-> <<>>, newContent |-> <<>>,
     session |-> editingInput.opened]

\* inserts that have not written yet
PendingInserts ==
    Cardinality({i \in 1..Len(tasks) :
                   tasks[i].kind # "edit" /\ tasks[i].pc # "refresh"})

\* saveEditChanges() up to its first await
saveEditChanges(cmd) ==
    LET newTitle == Trim(editingInput.value)
    IN  IF editStartNode = NoNode \/ selectedSection = NoSection
        THEN /\ hideEditInput(tasks)
             /\ lastEvent' = Event(cmd, "commit dropped")
             /\ UNCHANGED <<doc, root, sectionHitboxes, selectedSection>>
        ELSE IF IsNoOpTitle(newTitle, editStartNode.title)
        THEN /\ hideEditInput(tasks)
             /\ lastEvent' = Event(cmd, "commit no-op")
             /\ UNCHANGED <<doc, root, sectionHitboxes, selectedSection>>
        ELSE /\ Len(tasks) < MaxTasks /\ commits < MaxCommits
             /\ SetRefs(editStartNode,
                        Append(tasks, NewTask("edit", 0, newTitle)))
             /\ lastEvent' = Event(cmd, "commit issued")
             /\ UNCHANGED <<doc, root, sectionHitboxes, selectedSection,
                            editingInput>>

\* createNewHeader(mode) up to its first await
createNewHeader(cmd, mode) ==
    LET newTitle == Trim(editingInput.value)
        newLevel == IF mode = "child" THEN editStartNode.level + 1
                    ELSE editStartNode.level
    IN  IF editStartNode = NoNode
        THEN /\ hideEditInput(tasks)
             /\ lastEvent' = Event(cmd, "commit dropped")
             /\ UNCHANGED <<doc, root, sectionHitboxes, selectedSection>>
        ELSE IF newTitle = <<>>
        THEN /\ hideEditInput(tasks)
             /\ lastEvent' = Event(cmd, "commit no-op")
             /\ UNCHANGED <<doc, root, sectionHitboxes, selectedSection>>
        ELSE /\ Len(tasks) < MaxTasks /\ commits < MaxCommits
             /\ Len(Split(doc)) + PendingInserts < MaxLines
             /\ SetRefs(editStartNode,
                        Append(tasks, NewTask(mode, newLevel, newTitle)))
             /\ lastEvent' = Event(cmd, "commit issued")
             /\ UNCHANGED <<doc, root, sectionHitboxes, selectedSection,
                            editingInput>>

\* commitChanges()
commitChanges(cmd) ==
    IF ~editingInput.exists
    THEN /\ lastEvent' = Event(cmd, "no input")
         /\ UNCHANGED <<doc, root, sectionHitboxes, selectedSection,
                        editingInput, editStartNode, tasks>>
    ELSE IF editingInput.mode = "edit" THEN saveEditChanges(cmd)
    ELSE IF editingInput.mode = "sibling" THEN createNewHeader(cmd, "sibling")
    ELSE IF editingInput.mode = "child" THEN createNewHeader(cmd, "child")
    ELSE /\ lastEvent' = Event(cmd, "no mode")
         /\ UNCHANGED <<doc, root, sectionHitboxes, selectedSection,
                        editingInput, editStartNode, tasks>>

\* cancelChanges()
cancelChanges ==
    /\ hideEditInput(tasks)
    /\ UNCHANGED <<doc, root, sectionHitboxes, selectedSection>>

-----------------------------------------------------------------------------
(* CircleView.ts: continuations of the suspended commits *)

\* saveEditChanges() after await this.updateMarkdownFile(...) returned;
\* ts are the other suspended commits
finishRename(t, ts, outcome) ==
    IF editStartNode = NoNode
    THEN \* this.editStartNode.title = ... throws, the catch hides the input
         /\ hideEditInput(ts)
         /\ lastEvent' = Event("store", "rename threw")
         /\ UNCHANGED <<root, sectionHitboxes, selectedSection>>
    ELSE LET newRoot == RetitledRoot(root, editStartNode, t.newTitle)
         IN  /\ root' = newRoot
             /\ editingInput' = HiddenInput(editingInput)
             /\ SetRefs(NoNode, RetitledTasks(ts, editStartNode, t.newTitle))
             /\ IF selectedSection = NoSection
                THEN \* this.selectedSection.title = ... throws
                     /\ lastEvent' = Event("store", "rename threw")
                     /\ UNCHANGED <<sectionHitboxes, selectedSection>>
                ELSE /\ selectedSection' =
                            [selectedSection EXCEPT !.title = t.newTitle]
                     /\ sectionHitboxes' = redraw(newRoot, sectionHitboxes)
                     /\ lastEvent' = Event("store", outcome)

\* vault.read of updateMarkdownFile completes for commit i
RenameRead(i, ok) ==
    /\ i \in 1..Len(tasks)
    /\ tasks[i].kind = "edit" /\ tasks[i].pc = "read"
    /\ LET t == tasks[i]
           r == RenamedContent(doc, t.node.level, t.node.title, t.newTitle)
       IN  IF ~ok
           THEN /\ hideEditInput(RemoveAt(tasks, i))
                /\ lastEvent' = Event("store", "read failed")
                /\ UNCHANGED <<doc, root, sectionHitboxes, selectedSection>>
           ELSE IF r.found
           THEN /\ SetRefs(editStartNode,
                           [tasks EXCEPT ![i] =
                               [t EXCEPT !.pc = "write", !.content = doc,
                                         !.newContent = r.newContent]])
                /\ lastEvent' = Event("store", "write issued")
                /\ UNCHANGED <<doc, root, sectionHitboxes, selectedSection,
                               editingInput>>
           ELSE /\ finishRename(t, RemoveAt(tasks, i), "rename not found")
                /\ UNCHANGED doc
    /\ UNCHANGED <<parseVars, commits, canvas>>

\* an updateMarkdownFile whose catch does not rethrow: saveEditChanges goes
\* on after a rejected write as after an accepted one
RenameWriteSwallowed(i, ok) ==
    /\ i \in 1..Len(tasks)
    /\ tasks[i].kind = "edit" /\ tasks[i].pc = "write"
    /\ doc' = IF ok THEN tasks[i].newContent ELSE doc
    /\ finishRename(tasks[i], RemoveAt(tasks, i),
                    IF ok THEN "renamed" ELSE "write failed")
    /\ UNCHANGED <<parseVars, commits, canvas>>

\* vault.modify of updateMarkdownFile completes for commit i
RenameWrite(i, ok) ==
    /\ i \in 1..Len(tasks)
    /\ tasks[i].kind = "edit" /\ tasks[i].pc = "write"
    /\ IF ~ok
       THEN /\ hideEditInput(RemoveAt(tasks, i))
            /\ lastEvent' = Event("store", "write failed")
            /\ UNCHANGED <<doc, root, sectionHitboxes, selectedSection>>
       ELSE /\ doc' = tasks[i].newContent
            /\ finishRename(tasks[i], RemoveAt(tasks, i), "renamed")
    /\ UNCHANGED <<parseVars, commits, canvas>>

\* vault.read of insertNewHeader completes for commit i
InsertRead(i, ok) ==
    /\ i \in 1..Len(tasks)
    /\ tasks[i].kind # "edit" /\ tasks[i].pc = "read"
    /\ LET t == tasks[i]
           r == InsertedContent(doc, t.level, t.newTitle, t.node.level,
                                t.node.title, t.kind)
       IN  IF ~ok \/ ~r.found
           THEN /\ hideEditInput(RemoveAt(tasks, i))
                /\ lastEvent' = Event("store", IF ok THEN "insert not found"
                                               ELSE "read failed")
           ELSE /\ SetRefs(editStartNode,
                           [tasks EXCEPT ![i] =
                               [t EXCEPT !.pc = "write", !.content = doc,
                                         !.newContent = r.newContent]])
                /\ lastEvent' = Event("store", "write issued")
                /\ UNCHANGED editingInput
    /\ UNCHANGED <<doc, root, sectionHitboxes, selectedSection>>
    /\ UNCHANGED <<parseVars, commits, canvas>>

\* vault.modify of insertNewHeader completes for commit i; createNewHeader
\* then hides the input and awaits the read that refreshes the view
InsertWrite(i, ok) ==
    /\ i \in 1..Len(tasks)
    /\ tasks[i].kind # "edit" /\ tasks[i].pc = "write"
    /\ IF ~ok
       THEN /\ hideEditInput(RemoveAt(tasks, i))
            /\ lastEvent' = Event("store", "write failed")
            /\ UNCHANGED doc
       ELSE /\ doc' = tasks[i].newContent
            /\ hideEditInput([tasks EXCEPT ![i].pc = "refresh"])
            /\ lastEvent' = Event("store", "inserted")
    /\ UNCHANGED <<root, sectionHitboxes, selectedSection>>
    /\ UNCHANGED <<parseVars, commits, canvas>>

\* index of the first hitbox titled title, 0 when there is none
\* (sectionHitboxes.find(section => section.title === newTitle))
FindSection(hitboxes, title) ==
    IF \E k \in 1..Len(hitboxes) : hitboxes[k].title = title
    THEN CHOOSE k \in 1..Len(hitboxes) :
             /\ hitboxes[k].title = title
             /\ \A j \in 1..(k - 1) : hitboxes[j].title # title
    ELSE 0

\* the read that refreshes the view after an insert completes for commit i
InsertRefresh(i, ok) ==
    /\ i \in 1..Len(tasks)
    /\ tasks[i].kind # "edit" /\ tasks[i].pc = "refresh"
    /\ LET t        == tasks[i]
           ts       == RemoveAt(tasks, i)
           newRoot  == TreeOf(doc)
           hitboxes == redraw(newRoot, <<>>)
           k        == FindSection(hitboxes, t.newTitle)
           parentNode == findNodeBySection(newRoot, 0, editStartNode.title)
           hasChild == /\ parentNode # -1
                       /\ \E c \in 1..Len(newRoot.kids[parentNode]) :
                              NodeTitle(newRoot, newRoot.kids[parentNode][c])
                                  = t.newTitle
       IN  IF ~ok
           THEN /\ hideEditInput(ts)
                /\ lastEvent' = Event("store", "refresh failed")
                /\ UNCHANGED <<root, sectionHitboxes, selectedSection>>
           ELSE /\ root' = newRoot
                /\ sectionHitboxes' = hitboxes
                /\ IF t.kind = "child" /\ editStartNode = NoNode
                   THEN \* this.editStartNode.title throws, the catch hides
                        /\ hideEditInput(AgedTasks(ts))
                        /\ lastEvent' = Event("store", "refresh threw")
                        /\ UNCHANGED selectedSection
                   ELSE /\ SetRefs(Aged(editStartNode), AgedTasks(ts))
                        /\ lastEvent' = Event("store", "refreshed")
                        /\ UNCHANGED editingInput
                        /\ selectedSection' =
                               IF k # 0 /\ (t.kind = "sibling" \/ hasChild)
                               THEN hitboxes[k] ELSE selectedSection
    /\ UNCHANGED doc
    /\ UNCHANGED <<parseVars, commits, canvas>>

-----------------------------------------------------------------------------
(* Events *)

\* setState(state, result) with state.file set, the read succeeding
SetState ==
    /\ ~root.loaded
    /\ root' = TreeOf(doc)
    /\ sectionHitboxes' = redraw(TreeOf(doc), sectionHitboxes)
    /\ SetRefs(Aged(editStartNode), AgedTasks(tasks))
    /\ lastEvent' = Event("other", "")
    /\ UNCHANGED <<doc, selectedSection, editingInput>>
    /\ UNCHANGED <<parseVars, commits, canvas>>

\* points a click may land on, as distance and angle from the centre: the
\* middle of every section, and the centre itself
ClickPoints ==
    { [distance |-> (sectionHitboxes[k].innerRadius
                       + sectionHitboxes[k].outerRadius) \div 2,
       angle |-> (sectionHitboxes[k].startAngle
                    + sectionHitboxes[k].endAngle) \div 2] :
        k \in 1..Len(sectionHitboxes) }
    \cup { [distance |-> 0, angle |-> 0] }

\* more points a click may land on: the outer end corner of every section,
\* which the section shares with its neighbours, and a point outside every
\* ring; the angle of a click is at least 0 and below 2 * Math.PI
EdgePoints ==
    { [distance |-> sectionHitboxes[k].outerRadius,
       angle |-> sectionHitboxes[k].endAngle % TwoPi] :
        k \in 1..Len(sectionHitboxes) }
    \cup { [distance |-> MaxRadius(canvas) + 1000, angle |-> TwoPi - 1] }

\* a test that leaves out the arcs' and rings' own borders
HitInside(section, p) ==
    /\ p.distance > section.innerRadius
    /\ p.distance < section.outerRadius
    /\ IF section.startAngle <= section.endAngle
       THEN p.angle > section.startAngle /\ p.angle < section.endAngle
       ELSE p.angle > section.startAngle \/ p.angle < section.endAngle

\* a test of the arc alone, whatever the distance of the click
HitAnyRing(section, p) ==
    IF section.startAngle <= section.endAngle
    THEN p.angle >= section.startAngle /\ p.angle <= section.endAngle
    ELSE p.angle >= section.startAngle \/ p.angle <= section.endAngle

\* the test of one section in the loop of handleCanvasClick
Hit(section, p) ==
    /\ p.distance >= section.innerRadius
    /\ p.distance <= section.outerRadius
    /\ IF section.startAngle <= section.endAngle
       THEN p.angle >= section.startAngle /\ p.angle <= section.endAngle
       ELSE p.angle >= section.startAngle \/ p.angle <= section.endAngle

\* for (const section of this.sectionHitboxes): the place in the list of
\* the section the loop returns on, 0 when it runs to its end
firstHit(hitboxes, p) ==
    IF \E k \in 1..Len(hitboxes) : Hit(hitboxes[k], p)
    THEN CHOOSE k \in 1..Len(hitboxes) :
             /\ Hit(hitboxes[k], p)
             /\ \A j \in 1..(k - 1) : ~Hit(hitboxes[j], p)
    ELSE 0

\* handleCanvasClick(event)
HandleCanvasClick(p) ==
    /\ IF firstHit(sectionHitboxes, p) # 0
       THEN LET k == firstHit(sectionHitboxes, p)
            IN  /\ selectedSection' = sectionHitboxes[k]
                /\ sectionHitboxes' = redraw(root, sectionHitboxes)
                /\ lastEvent' = Event("other", "")
       ELSE /\ selectedSection' = NoSection
            /\ sectionHitboxes' =
                   IF selectedSection # NoSection
                   THEN redraw(root, sectionHitboxes) ELSE sectionHitboxes
            /\ lastEvent' = Event("other", "")
    /\ UNCHANGED <<doc, root, editingInput, editStartNode, tasks>>
    /\ UNCHANGED <<parseVars, commits, canvas>>

\* Math.abs
Abs(x) == IF x < 0 THEN -x ELSE x

\* what a navigation leaves in this.selectedSection, and whether it called
\* redraw()
Stay(selected) == [section |-> selected, redrawn |-> FALSE]
MoveTo(section) == [section |-> section, redrawn |-> TRUE]

\* sameLevelSections of navigateHorizontally
sameLevelSections(hitboxes, selected) ==
    SelectSeq(hitboxes,
              LAMBDA section :
                  /\ section.innerRadius = selected.innerRadius
                  /\ section.outerRadius = selected.outerRadius)

\* Array.prototype.findIndex on the angles of the selection: 0-based, -1
\* when no element has them
currentIndexOf(sections, selected) ==
    LET found == { i \in 1..Len(sections) :
                       /\ sections[i].startAngle = selected.startAngle
                       /\ sections[i].endAngle = selected.endAngle }
    IN  IF found = {} THEN -1
        ELSE (CHOOSE i \in found : \A j \in found : i <= j) - 1

\* a navigateHorizontally that turns back at the ends of the ring
navigateHorizontallyTurning(hitboxes, selected, direction) ==
    LET same == sameLevelSections(hitboxes, selected)
        currentIndex == currentIndexOf(same, selected)
        nextIndex == IF currentIndex + direction \in 0..(Len(same) - 1)
                     THEN currentIndex + direction
                     ELSE currentIndex - direction
    IN  IF Len(same) <= 1 THEN Stay(selected)
        ELSE IF currentIndex = -1 THEN Stay(selected)
        ELSE MoveTo(same[nextIndex + 1])

\* navigateHorizontally(direction)
navigateHorizontally(hitboxes, selected, direction) ==
    LET same == sameLevelSections(hitboxes, selected)
        currentIndex == currentIndexOf(same, selected)
        nextIndex == (currentIndex + direction + Len(same)) % Len(same)
    IN  IF Len(same) <= 1 THEN Stay(selected)
        ELSE IF currentIndex = -1 THEN Stay(selected)
        ELSE MoveTo(same[nextIndex + 1])

\* childSections of navigateVertically; Math.abs(...) < 1 is a pixel, 1000
\* units of length
childSections(hitboxes, selected) ==
    SelectSeq(hitboxes,
              LAMBDA section :
                  /\ Abs(section.innerRadius - selected.outerRadius) < 1000
                  /\ section.startAngle >= selected.startAngle
                  /\ section.endAngle < selected.endAngle)

\* for (const child of childSections) { ... if (diff < bestDiff) ... }: the
\* bestChild it ends with.  Mid-angles are halves of angle sums; every
\* difference here is kept doubled, which orders them the same way.
RECURSIVE bestChildLoop(_, _, _, _)
bestChildLoop(children, i, currentMidAngle2, best) ==
    IF i > Len(children) THEN best.bestChild
    ELSE LET child == children[i]
             diff == Abs((child.startAngle + child.endAngle)
                            - currentMidAngle2)
         IN  bestChildLoop(children, i + 1, currentMidAngle2,
                           IF diff < best.bestDiff
                           THEN [bestChild |-> child, bestDiff |-> diff]
                           ELSE best)

\* let bestChild = childSections[0];
\* let bestDiff = Math.abs(bestChild.startAngle + bestChild.endAngle) / 2
\*                    - currentMidAngle;
\* and the loop
bestChildOf(children, selected) ==
    LET currentMidAngle2 == selected.startAngle + selected.endAngle
        bestChild == children[1]
        bestDiff == Abs(bestChild.startAngle + bestChild.endAngle)
                        - currentMidAngle2
    IN  bestChildLoop(children, 1, currentMidAngle2,
                      [bestChild |-> bestChild, bestDiff |-> bestDiff])

\* parentSections of navigateVertically
parentSections(hitboxes, selected) ==
    SelectSeq(hitboxes,
              LAMBDA section :
                  /\ Abs(section.outerRadius - selected.innerRadius) < 1000
                  /\ section.startAngle <= selected.startAngle
                  /\ section.endAngle >= selected.endAngle)

\* navigateVertically(direction)
navigateVertically(hitboxes, selected, direction) ==
    IF direction > 0
    THEN LET children == childSections(hitboxes, selected)
         IN  IF Len(children) > 0
             THEN MoveTo(bestChildOf(children, selected))
             ELSE Stay(selected)
    ELSE LET parents == parentSections(hitboxes, selected)
         IN  IF Len(parents) > 0 THEN MoveTo(parents[1])
             ELSE Stay(selected)

\* the keys a keydown event may carry: the four handleKeyDown knows and one
\* it does not
Keys == {"ArrowRight", "ArrowLeft", "ArrowUp", "ArrowDown", "Enter"}

\* switch (event.key) of handleKeyDown, with a selection
keyMove(hitboxes, selected, key) ==
    CASE key = "ArrowRight" -> navigateHorizontally(hitboxes, selected, 1)
      [] key = "ArrowLeft"  -> navigateHorizontally(hitboxes, selected, -1)
      [] key = "ArrowUp"    -> navigateVertically(hitboxes, selected, 1)
      [] key = "ArrowDown"  -> navigateVertically(hitboxes, selected, -1)
      [] OTHER              -> Stay(selected)

\* handleKeyDown(event) once the canvas and the root exist: with no
\* selection the first section for ArrowDown and ArrowRight, else the switch
keyDown(hitboxes, selected, key) ==
    IF selected = NoSection
    THEN IF key \in {"ArrowDown", "ArrowRight"} /\ Len(hitboxes) > 0
         THEN MoveTo(hitboxes[1])
         ELSE Stay(selected)
    ELSE keyMove(hitboxes, selected, key)

\* handleKeyDown(event)
HandleKeyDown(key) ==
    /\ IF ~root.loaded
       THEN UNCHANGED <<selectedSection, sectionHitboxes>>
       ELSE LET move == keyDown(sectionHitboxes, selectedSection, key)
            IN  /\ selectedSection' = move.section
                /\ sectionHitboxes' =
                       IF move.redrawn THEN redraw(root, sectionHitboxes)
                       ELSE sectionHitboxes
    /\ lastEvent' = Event("other", "")
    /\ UNCHANGED <<doc, root, editingInput, editStartNode, tasks>>
    /\ UNCHANGED <<parseVars, commits, canvas>>

\* the sizes the container of the view may have when the workspace reports
\* a resize or a layout change
ClientSizes ==
    { [clientWidth |-> 300, clientHeight |-> 150],
      [clientWidth |-> 100, clientHeight |-> 100],
      [clientWidth |-> 60,  clientHeight |-> 400] }

\* resizeCanvas()
ResizeCanvas(el) ==
    /\ IF canvas.width = el.clientWidth /\ canvas.height = el.clientWidth
       THEN UNCHANGED <<canvas, sectionHitboxes>>
       ELSE /\ canvas' = [width  |-> Max(100, el.clientWidth),
                          height |-> Max(100, el.clientHeight)]
            /\ sectionHitboxes' =
                   IF root.loaded THEN drawCircleVisualization(canvas', root)
                   ELSE sectionHitboxes
    /\ lastEvent' = Event("other", "")
    /\ UNCHANGED <<doc, root, selectedSection, editingInput, editStartNode,
                   tasks, parseVars, commits>>

\* the user types into the focused input
TypeText(v) ==
    /\ isEditingActive
    /\ editingInput' = [editingInput EXCEPT !.value = v]
    /\ lastEvent' = Event("other", "")
    /\ UNCHANGED <<doc, root, sectionHitboxes, selectedSection,
                   editStartNode, tasks>>
    /\ UNCHANGED <<parseVars, commits, canvas>>

-----------------------------------------------------------------------------
(* main.ts: the commands (checkCallback with checking = false) *)

Ignored(cmd) ==
    /\ lastEvent' = Event(cmd, "ignored")
    /\ UNCHANGED <<doc, root, sectionHitboxes, selectedSection,
                   editingInput, editStartNode, tasks>>

\* circle-create-child-header
CmdCreateChild ==
    /\ IF ~isEditingActive
       THEN commits < MaxCommits /\ showInput("create-child", "child")
       ELSE Ignored("create-child")
    /\ UNCHANGED <<parseVars, commits, canvas>>

\* the command without the isEditingActive() test
CmdCreateSiblingUnguarded ==
    /\ commits < MaxCommits /\ showInput("create-sibling", "sibling")
    /\ UNCHANGED <<parseVars, commits, canvas>>

\* circle-create-sibling-header
CmdCreateSibling ==
    /\ IF ~isEditingActive
       THEN commits < MaxCommits /\ showInput("create-sibling", "sibling")
       ELSE Ignored("create-sibling")
    /\ UNCHANGED <<parseVars, commits, canvas>>

\* circle-edit-header
CmdEditHeader ==
    /\ IF ~isEditingActive
       THEN commits < MaxCommits /\ showInput("edit-header", "edit")
       ELSE commitChanges("edit-header")
    /\ commits' = commits + Len(tasks') - Len(tasks)
    /\ UNCHANGED <<parseVars, canvas>>

\* circle-submit
CmdSubmit ==
    /\ IF isEditingActive THEN commitChanges("submit")
       ELSE Ignored("submit")
    /\ commits' = commits + Len(tasks') - Len(tasks)
    /\ UNCHANGED <<parseVars, canvas>>

\* circle-cancel
CmdCancel ==
    /\ cancelChanges
    /\ lastEvent' = Event("cancel", "cancelled")
    /\ UNCHANGED <<parseVars, commits, canvas>>

-----------------------------------------------------------------------------
(* The view: specification Spec *)

Init ==
    /\ headers = <<>>
    /\ pos = 0
    /\ currentParents = <<0>>
    /\ result = FoldInit(<<>>).kids
    /\ doc \in {Join(d) : d \in InitDocs}
    /\ root = NoRoot
    /\ sectionHitboxes = <<>>
    /\ selectedSection = NoSection
    /\ editingInput = NoInput
    /\ editStartNode = NoNode
    /\ tasks = <<>>
    /\ lastEvent = Event("init", "")
    /\ commits = 0
    /\ canvas = DefaultCanvas

Next ==
    \/ SetState
    \/ \E p \in ClickPoints : HandleCanvasClick(p)
    \/ \E key \in Keys : HandleKeyDown(key)
    \/ \E v \in InputTexts : TypeText(v)
    \/ CmdCreateChild
    \/ CmdCreateSibling
    \/ CmdEditHeader
    \/ CmdSubmit
    \/ CmdCancel
    \/ \E i \in 1..MaxTasks, ok \in BOOLEAN : RenameRead(i, ok)
    \/ \E i \in 1..MaxTasks, ok \in BOOLEAN : RenameWrite(i, ok)
    \/ \E i \in 1..MaxTasks, ok \in BOOLEAN : InsertRead(i, ok)
    \/ \E i \in 1..MaxTasks, ok \in BOOLEAN : InsertWrite(i, ok)
    \/ \E i \in 1..MaxTasks, ok \in BOOLEAN : InsertRefresh(i, ok)

Spec == Init /\ [][Next]_vars

\* a completion of the store: the vault answers a read or a write
StoreStep ==
    \E i \in 1..MaxTasks, ok \in BOOLEAN :
        \/ RenameRead(i, ok) \/ RenameWrite(i, ok)
        \/ InsertRead(i, ok) \/ InsertWrite(i, ok) \/ InsertRefresh(i, ok)

\* the view with a vault that answers every read and write it is given
LiveSpec == Init /\ [][Next]_vars /\ WF_vars(StoreStep)

-----------------------------------------------------------------------------
(* buildHeaderHierarchy on its own: specification ParseSpec *)

ParseInit ==
    /\ headers \in HeaderLists
    /\ pos = 0
    /\ currentParents = FoldInit(headers).stack
    /\ result = FoldInit(headers).kids
    /\ doc = <<>>
    /\ root = NoRoot
    /\ sectionHitboxes = <<>>
    /\ selectedSection = NoSection
    /\ editingInput = NoInput
    /\ editStartNode = NoNode
    /\ tasks = <<>>
    /\ lastEvent = Event("init", "")
    /\ commits = 0
    /\ canvas = DefaultCanvas

\* one iteration of for (const header of headers)
ParseStep ==
    /\ pos < Len(headers)
    /\ LET st == FoldStep(headers,
                          [stack |-> currentParents, kids |-> result],
                          pos + 1)
       IN  /\ currentParents' = st.stack
           /\ result' = st.kids
    /\ pos' = pos + 1
    /\ UNCHANGED headers
    /\ UNCHANGED viewVars

\* what setState does with the children parseHeaders returned: the tree
\* under the synthetic root, then redraw()
ParseDraw ==
    /\ pos = Len(headers) /\ ~root.loaded
    /\ root' = [loaded |-> TRUE, title |-> Basename, nodes |-> headers,
                kids |-> result]
    /\ sectionHitboxes' = redraw(root', sectionHitboxes)
    /\ UNCHANGED <<parseVars, doc, selectedSection, editingInput,
                   editStartNode, tasks, lastEvent, commits, canvas>>

ParseNext == ParseStep \/ ParseDraw

ParseSpec == ParseInit /\ [][ParseNext]_vars

-----------------------------------------------------------------------------
(* The layout and the navigation on their own: specification NavSpec *)

\* the view before setState, with the tree of any header list parsed
NavInit ==
    /\ headers \in HeaderLists
    /\ pos = Len(headers)
    /\ currentParents = FoldFrom(headers, FoldInit(headers), 1).stack
    /\ result = buildHeaderHierarchy(headers)
    /\ doc = <<>>
    /\ root = NoRoot
    /\ sectionHitboxes = <<>>
    /\ selectedSection = NoSection
    /\ editingInput = NoInput
    /\ editStartNode = NoNode
    /\ tasks = <<>>
    /\ lastEvent = Event("init", "")
    /\ commits = 0
    /\ canvas = DefaultCanvas

NavNext ==
    \/ ParseDraw
    \/ \E p \in ClickPoints \cup EdgePoints : HandleCanvasClick(p)
    \/ \E key \in Keys : HandleKeyDown(key)
    \/ \E el \in ClientSizes : ResizeCanvas(el)

NavSpec == NavInit /\ [][NavNext]_vars

-----------------------------------------------------------------------------
(* createNewHeader and insertNewHeader on their own: specification PatchSpec *)

\* most lines of a document an insert is run on
MaxPatchLines == 3

\* the lines of those documents: headers of levels 1, 2, 3 and 6, a tag
\* line, a line of seven "#" and plain text
PatchLines ==
    { <<"#", " ", "D">>,
      <<"#", "#", " ", "B">>,
      <<"#", "#", "#", " ", "C">>,
      <<"#", "#", "#", "#", "#", "#", " ", "S">>,
      <<"#", "t">>,
      <<"#", "#", "#", "#", "#", "#", "#", " ", "x">>,
      <<"t">> }

PatchDocs ==
    UNION { [1..n -> PatchLines] : n \in 1..MaxPatchLines }

PatchInit ==
    /\ doc \in {Join(d) : d \in PatchDocs}
    /\ headers = <<>>
    /\ pos = 0
    /\ currentParents = <<0>>
    /\ result = FoldInit(<<>>).kids
    /\ root = NoRoot
    /\ sectionHitboxes = <<>>
    /\ selectedSection = NoSection
    /\ editingInput = NoInput
    /\ editStartNode = NoNode
    /\ tasks = <<>>
    /\ lastEvent = Event("init", "")
    /\ commits = 0
    /\ canvas = DefaultCanvas

\* createNewHeader(mode) with the n-th header of the document as
\* this.editStartNode and "N" entered, the store answering at once:
\* newLevel, insertNewHeader and the write.  headers and result keep the
\* tree parsed before, tasks the commit with the text read and the text
\* written.
PatchInsert(n, mode) ==
    /\ pos = 0
    /\ n \in 1..Len(parseHeaders(doc).nodes)
    /\ LET before   == parseHeaders(doc)
           node     == before.nodes[n]
           newTitle == Trim(<<" ", "N", " ">>)
           newLevel == IF mode = "child" THEN node.level + 1 ELSE node.level
           r == InsertedContent(doc, newLevel, newTitle, node.level,
                                node.title, mode)
       IN  /\ headers' = before.nodes
           /\ result' = before.kids
           /\ IF r.found
              THEN /\ doc' = r.newContent
                   /\ tasks' = << [kind |-> mode, pc |-> "refresh",
                                   node |-> [gen |-> 0, idx |-> n,
                                             level |-> node.level,
                                             title |-> node.title],
                                   level |-> newLevel, newTitle |-> newTitle,
                                   content |-> doc,
                                   newContent |-> r.newContent,
                                   session |-> 0] >>
                   /\ lastEvent' = Event("store", "inserted")
              ELSE /\ lastEvent' = Event("store", "insert not found")
                   /\ UNCHANGED <<doc, tasks>>
    /\ pos' = 1
    /\ UNCHANGED <<currentParents, root, sectionHitboxes, selectedSection,
                   editingInput, editStartNode, commits, canvas>>

PatchNext ==
    \E n \in 1..MaxPatchLines, mode \in {"child", "sibling"} :
        PatchInsert(n, mode)

PatchSpec == PatchInit /\ [][PatchNext]_vars

-----------------------------------------------------------------------------
(* parseHeaders on single lines: specification LineSpec *)

\* the lines parseHeaders is run on: up to MaxMarker "#" and then up to
\* MaxRest characters, each a space, a tab, a carriage return, "#" or "A"
LineChars == {" ", "\t", "\r", "#", "A"}

LineRests == UNION {[1..n -> LineChars] : n \in 0..MaxRest}

Lines == {Hashes(h) \o r : h \in 0..MaxMarker, r \in LineRests}

LineInit ==
    /\ doc \in Lines
    /\ headers = <<>>
    /\ pos = 0
    /\ currentParents = <<0>>
    /\ result = FoldInit(<<>>).kids
    /\ root = NoRoot
    /\ sectionHitboxes = <<>>
    /\ selectedSection = NoSection
    /\ editingInput = NoInput
    /\ editStartNode = NoNode
    /\ tasks = <<>>
    /\ lastEvent = Event("init", "")
    /\ commits = 0
    /\ canvas = DefaultCanvas

\* parseHeaders(markdown) on a text of one line: the nodes it returns
LineParse ==
    /\ pos = 0
    /\ headers' = parseHeaders(doc).nodes
    /\ result' = parseHeaders(doc).kids
    /\ pos' = 1
    /\ UNCHANGED <<currentParents, viewVars>>

LineNext == LineParse

LineSpec == LineInit /\ [][LineNext]_vars

-----------------------------------------------------------------------------
(* Properties of buildHeaderHierarchy (ParseSpec) *)

\* the nearest header before i with a strictly smaller level, 0 (the root)
\* when there is none
NearestSmaller(hs, i) ==
    LET S == {j \in 1..(i - 1) : hs[j].level < hs[i].level}
    IN  IF S = {} THEN 0 ELSE CHOOSE j \in S : \A k \in S : k <= j

\* C1. Tree fold: every header the loop has consumed is a child of the
\* nearest preceding header with a strictly smaller level, or of the root
\* when there is none; the children of a node are in document order and no
\* header is a child twice; when the loop ends the result is the tree
\* buildHeaderHierarchy returns; and [(1,A),(3,B),(2,C),(1,D)] gives
\* top-level [A,D], A.children = [B,C], B, C and D childless.
C1_TreeFold ==
    /\ \A p \in DOMAIN result :
          /\ \A a, b \in 1..Len(result[p]) :
                 a < b => result[p][a] < result[p][b]
          /\ {result[p][a] : a \in 1..Len(result[p])}
                 = {i \in 1..pos : NearestSmaller(headers, i) = p}
    /\ pos = Len(headers) => result = buildHeaderHierarchy(headers)
    /\ (/\ pos = 4 /\ Len(headers) = 4
        /\ [i \in 1..4 |-> headers[i].level] = <<1, 3, 2, 1>>)
       => /\ result[0] = <<1, 4>>
          /\ result[1] = <<2, 3>>
          /\ result[2] = <<>> /\ result[3] = <<>> /\ result[4] = <<>>
          /\ [i \in 1..4 |-> headers[i].title]
                 = << <<"A">>, <<"B">>, <<"C">>, <<"D">> >>

C1_Witness ==
    /\ pos = 4 /\ Len(headers) = 4
    /\ [i \in 1..4 |-> headers[i].level] = <<1, 3, 2, 1>>
    /\ result[0] = <<1, 4>> /\ result[1] = <<2, 3>>

-----------------------------------------------------------------------------
(* Properties of the view (Spec) *)

\* number of "#" a line starts with
MarkerWidth(line) ==
    Cardinality({k \in 1..Len(line) : \A j \in 1..k : line[j] = "#"})

\* the line is a header line for (level, title) as the patcher looks for
\* it: level "#", a space, and text that trimmed is the title
MatchesAnchor(line, level, title) ==
    /\ MarkerWidth(line) = level
    /\ Len(line) > level
    /\ line[level + 1] = " "
    /\ Trim(SubSeq(line, level + 2, Len(line))) = title

\* 1-based index of the first line matching (level, title), 0 without one
FirstMatch(lines, level, title) ==
    LET S == {k \in 1..Len(lines) : MatchesAnchor(lines[k], level, title)}
    IN  IF S = {} THEN 0 ELSE CHOOSE k \in S : \A j \in S : k <= j

\* lines with line put in front of the at-th line (1-based)
WithLineAt(lines, at, line) ==
    [j \in 1..(Len(lines) + 1) |->
        IF j < at THEN lines[j] ELSE IF j = at THEN line ELSE lines[j - 1]]

\* this step completes the read of suspended commit i, of one of the kinds,
\* and issues its write
ReadDone(i, kinds) ==
    /\ i \in 1..Len(tasks)
    /\ tasks[i].pc = "read" /\ tasks[i].kind \in kinds
    /\ Len(tasks') = Len(tasks)
    /\ tasks'[i].pc = "write"

\* this step completes the write of a suspended commit, the store accepting
WriteDone(i) ==
    /\ lastEvent'.cmd = "store"
    /\ RenameWrite(i, TRUE) \/ InsertWrite(i, TRUE)

\* the header lines among the first k lines
HeaderCount(lines, k) ==
    Cardinality({j \in 1..k : IsHeaderLine(lines[j])})

\* C2 as claimed, for a rename of (level, title) to newTitle that read the
\* text read and hands written to the store
RenameAsClaimed(read, level, title, newTitle, written) ==
    LET lines  == Split(read)
        k      == FirstMatch(lines, level, title)
        before == parseHeaders(read)
        after  == parseHeaders(written)
        j      == HeaderCount(lines, k)
    IN  /\ Split(written) =
               [lines EXCEPT ![k] = Hashes(level) \o <<" ">> \o newTitle]
        /\ IsHeaderLine(lines[k])
        /\ before.nodes[j] = [level |-> level, title |-> title]
        /\ after.kids = before.kids
        /\ after.nodes = [before.nodes EXCEPT ![j].title = newTitle]

\* C2. Rename: a committed rename rewrites the first line whose marker width
\* is node.level and whose trimmed text is node.title to the same marker, a
\* space and the new title, that text is what is written, and parsing it
\* gives the tree of the text read with only that node's title replaced.
C2_Rename ==
    [][\A i \in 1..MaxTasks :
          /\ (ReadDone(i, {"edit"}) =>
                 RenameAsClaimed(doc, tasks[i].node.level, tasks[i].node.title,
                                 tasks[i].newTitle, tasks'[i].newContent))
          /\ (RenameWrite(i, TRUE) => doc' = tasks[i].newContent)]_vars

\* C3. Insert-sibling boundary: the text a sibling insert hands to the store
\* is the text read with one line, N's marker and the new title, put at the
\* first line after N's header line whose marker width is between 1 and
\* N.level, or at the end when there is none; that text is what is written;
\* in ['# A','## B','tx','# C',''] a sibling of B lands right before '# C'.
C3_InsertSibling ==
    [][\A i \in 1..MaxTasks :
          /\ (ReadDone(i, {"sibling"}) =>
                LET lines == Split(doc)
                    n     == tasks[i].node
                    k     == FirstMatch(lines, n.level, n.title)
                    B     == {j \in (k + 1)..Len(lines) :
                                /\ MarkerWidth(lines[j]) >= 1
                                /\ MarkerWidth(lines[j]) <= n.level}
                    at    == IF B = {} THEN Len(lines) + 1
                             ELSE CHOOSE j \in B : \A x \in B : j <= x
                    new   == Split(tasks'[i].newContent)
                IN  /\ k # 0
                    /\ new = WithLineAt(lines, at,
                                 Hashes(n.level) \o <<" ">> \o tasks[i].newTitle)
                    /\ (/\ lines = << <<"#"," ","A">>, <<"#","#"," ","B">>,
                                      <<"t","e","x","t">>, <<"#"," ","C">>, <<>> >>
                        /\ n.level = 2 /\ n.title = <<"B">>)
                       => new = << <<"#"," ","A">>, <<"#","#"," ","B">>,
                                   <<"t","e","x","t">>,
                                   <<"#","#"," ">> \o tasks[i].newTitle,
                                   <<"#"," ","C">>, <<>> >>)
          /\ (InsertWrite(i, TRUE) => doc' = tasks[i].newContent)]_vars

C3_Witness ==
    \E i \in 1..Len(tasks) :
        /\ tasks[i].kind = "sibling" /\ tasks[i].pc = "refresh"
        /\ Split(doc) = << <<"#"," ","A">>, <<"#","#"," ","B">>, <<"t","e","x","t">>,
                           <<"#","#"," ","N">>, <<"#"," ","C">>, <<>> >>

\* C4. Insert-child: the text a child insert hands to the store is the text
\* read with exactly one line, P.level + 1 "#", a space and the trimmed
\* text entered, put right after the first line matching P's level and
\* title; that text is what is written.
C4_InsertChild ==
    [][\A i \in 1..MaxTasks :
          /\ (ReadDone(i, {"child"}) =>
                LET lines == Split(doc)
                    n     == tasks[i].node
                    k     == FirstMatch(lines, n.level, n.title)
                IN  /\ k # 0
                    /\ tasks[i].newTitle \in
                           {Trim(v) : v \in InputTexts \cup {<<>>}}
                    /\ Split(tasks'[i].newContent) =
                           WithLineAt(lines, k + 1,
                               Hashes(n.level + 1) \o <<" ">>
                                   \o tasks[i].newTitle))
          /\ (InsertWrite(i, TRUE) => doc' = tasks[i].newContent)]_vars

C4_Witness ==
    \E i \in 1..Len(tasks) :
        /\ tasks[i].kind = "child" /\ tasks[i].pc = "refresh"
        /\ Split(doc) = << <<"#"," ","A">>, <<"#","#"," ","N">>,
                           <<"#","#","#"," ","A">>, <<"#","#"," ","F">> >>

\* the two line lists agree outside one rewritten line
OneLineRewritten(old, new) ==
    /\ Len(new) = Len(old)
    /\ \E k \in 1..Len(old) : \A j \in 1..Len(old) : j # k => new[j] = old[j]

\* new is old with one line put in
OneLineInserted(old, new) ==
    /\ Len(new) = Len(old) + 1
    /\ \E k \in 1..Len(new) :
          \A j \in 1..Len(old) : old[j] = new[IF j < k THEN j ELSE j + 1]

PcRank(pc) == IF pc = "read" THEN 1 ELSE IF pc = "write" THEN 2 ELSE 3

\* C5. Patch frame: the text a rename hands to the store is the text it
\* read with one line rewritten, the text an insert hands over is the text
\* it read with one line put in, every other line verbatim and in order;
\* the document changes only by the write of a suspended commit, to the
\* text that commit prepared; and a commit never writes twice: it moves
\* from its read to its write to the refresh and never back.
C5_PatchFrame ==
    [][/\ \A i \in 1..MaxTasks :
             /\ (ReadDone(i, {"edit"}) =>
                    /\ tasks'[i].content = doc
                    /\ OneLineRewritten(Split(doc),
                                        Split(tasks'[i].newContent)))
             /\ (ReadDone(i, {"child", "sibling"}) =>
                    /\ tasks'[i].content = doc
                    /\ OneLineInserted(Split(doc),
                                       Split(tasks'[i].newContent)))
       /\ (doc' # doc =>
              \E i \in 1..Len(tasks) :
                  /\ WriteDone(i)
                  /\ tasks[i].pc = "write"
                  /\ doc' = tasks[i].newContent)
       /\ (Len(tasks') = Len(tasks) =>
              \A i \in 1..Len(tasks) :
                  /\ PcRank(tasks'[i].pc) >= PcRank(tasks[i].pc)
                  /\ PcRank(tasks'[i].pc) <= PcRank(tasks[i].pc) + 1)]_vars

C5_Witness ==
    /\ lastEvent = Event("store", "renamed")
    /\ Split(doc) = << <<"#"," ","A">>, <<"#","#"," ","N">>, <<"t","e","x","t">>,
                       <<"#"," ","C">>, <<>> >>

\* C6. No overlapping mutations: at most one commit is between the start of
\* its read and the end of its write.
C6_NoOverlap ==
    Cardinality({i \in 1..Len(tasks) : tasks[i].pc \in {"read", "write"}}) <= 1

\* the session and the document are as they were, and no commit started
SessionUntouched ==
    /\ editingInput' = editingInput
    /\ editStartNode' = editStartNode
    /\ tasks' = tasks
    /\ doc' = doc

\* C7 as claimed. While an edit session is active each of the begin-rename,
\* begin-insert-child and begin-insert-sibling commands leaves the mode,
\* the anchor and the pending text as they were and starts no write.
C7_BeginIgnored ==
    [][(isEditingActive /\ (CmdEditHeader \/ CmdCreateChild \/ CmdCreateSibling))
          => SessionUntouched]_vars

\* C7 amended. While an edit session is active the begin-insert-child and
\* begin-insert-sibling commands leave the session and the document as they
\* were; the begin-rename command opens no new session either, but commits
\* the active one: the input keeps its mode and text or is hidden, the
\* anchor stays or is cleared.
C7_BeginIgnoredOrCommit ==
    [][/\ (isEditingActive /\ (CmdCreateChild \/ CmdCreateSibling))
             => SessionUntouched
       /\ (isEditingActive /\ CmdEditHeader)
             => /\ editingInput' \in {editingInput, HiddenInput(editingInput)}
                /\ editStartNode' \in {editStartNode, NoNode}
                /\ editingInput'.value = editingInput.value
                /\ doc' = doc]_vars

C7_Witness ==
    /\ isEditingActive
    /\ lastEvent = Event("create-sibling", "ignored")
    /\ editingInput.mode = "edit"

\* C8. Cancel: the cancel command starts no read and no write, leaves the
\* document, the tree, the sections and the selection as they were, and
\* ends the session: the input is hidden and no anchor is held.
C8_Cancel ==
    [][CmdCancel =>
          /\ doc' = doc /\ root' = root
          /\ sectionHitboxes' = sectionHitboxes
          /\ selectedSection' = selectedSection
          /\ Len(tasks') = Len(tasks)
          /\ \A i \in 1..Len(tasks) :
                 /\ tasks'[i].pc = tasks[i].pc
                 /\ tasks'[i].newContent = tasks[i].newContent
          /\ ~isEditingActive'
          /\ editStartNode' = NoNode]_vars

C8_Witness ==
    /\ lastEvent = Event("cancel", "cancelled")
    /\ editingInput.exists /\ editingInput.value = <<" ","N"," ">>
    /\ selectedSection # NoSection

\* the commit would change nothing: a rename to the empty or the old title,
\* an insert of the empty title
NoOpCommit ==
    LET text == Trim(editingInput.value)
    IN  \/ /\ editingInput.mode = "edit"
           /\ text = <<>> \/ text = editStartNode.title
        \/ /\ editingInput.mode \in {"child", "sibling"}
           /\ text = <<>>

\* C9. No-op commit: committing a rename whose trimmed text is empty or the
\* anchor's title, or an insert whose trimmed text is empty, starts no
\* write, leaves document, tree and selection as they were and ends the
\* session.
C9_NoOpCommit ==
    [][(isEditingActive /\ NoOpCommit /\ (CmdSubmit \/ CmdEditHeader)) =>
          /\ doc' = doc /\ root' = root
          /\ selectedSection' = selectedSection
          /\ Len(tasks') = Len(tasks)
          /\ \A i \in 1..Len(tasks) : tasks'[i].pc = tasks[i].pc
          /\ ~isEditingActive'
          /\ editStartNode' = NoNode]_vars

C9_Witness ==
    /\ lastEvent = Event("submit", "commit no-op")
    /\ editingInput.value = selectedSection.title
    /\ ~isEditingActive

\* C10. Tree follows document: when a commit has completed, the tree in
\* memory is the tree of the text the store holds.
C10_TreeFollowsDocument ==
    [][Len(tasks') < Len(tasks) => root' = TreeOf(doc')]_vars

\* the sections of hitboxes that are equal to section
SectionsEqualTo(hitboxes, section) ==
    {k \in 1..Len(hitboxes) : hitboxes[k] = section}

\* number of headers of the document titled title
TitleCount(markdown, title) ==
    LET nodes == parseHeaders(markdown).nodes
    IN  Cardinality({k \in 1..Len(nodes) : nodes[k].title = title})

\* C11. Post-edit selection: when the refresh of an insert whose new title
\* is the title of exactly one header of the document completes, the
\* selection is the section of the new layout with that title; when the
\* write of a rename completes, the selection is the section of the redrawn
\* layout with the new title.
C11_PostEditSelection ==
    [][\A i \in 1..MaxTasks :
          /\ (/\ lastEvent'.cmd = "store"
              /\ InsertRefresh(i, TRUE)
              /\ TitleCount(doc, tasks[i].newTitle) = 1)
             => /\ selectedSection'.title = tasks[i].newTitle
                /\ SectionsEqualTo(sectionHitboxes', selectedSection') # {}
          /\ (lastEvent'.cmd = "store" /\ RenameWrite(i, TRUE))
             => /\ selectedSection'.title = tasks[i].newTitle
                /\ SectionsEqualTo(sectionHitboxes', selectedSection') # {}]_vars

\* the session is over: the input is hidden and no anchor is held
Released == ~isEditingActive /\ editStartNode = NoNode

\* a commit is between the start of its read and the end of its write
InFlight == \E i \in 1..Len(tasks) : tasks[i].pc \in {"read", "write"}

\* C12. Session release: every step that completes a cancel, a commit that
\* is a no-op or is dropped, a rename (written, not found, thrown or
\* rejected by the store), or the patch of an insert (written, not found or
\* rejected) leaves the input hidden and no anchor held; the refresh that
\* ends an insert opens no session; a commit command does nothing only when
\* no session is active; and with a vault that answers, every commit in
\* flight leads to a state where the session is released.
C12_SessionRelease ==
    /\ [][/\ lastEvent'.outcome \in
                 {"cancelled", "commit dropped", "commit no-op",
                  "read failed", "write failed", "rename not found",
                  "renamed", "rename threw", "insert not found", "inserted",
                  "refresh failed", "refresh threw"}
             => Released'
          /\ lastEvent'.outcome = "refreshed"
             => /\ editingInput' = editingInput
                /\ editStartNode = NoNode => editStartNode' = NoNode
          /\ lastEvent'.outcome \in {"no input", "no mode"}
             => ~isEditingActive]_vars
    /\ (InFlight ~> Released)

C12_Witness ==
    /\ lastEvent = Event("store", "write failed")
    /\ editingInput.exists /\ Released
    /\ tasks = <<>>

\* commit i is at its read and no line of the document matches its anchor
AnchorMissing(i) ==
    /\ i \in 1..Len(tasks)
    /\ tasks[i].pc = "read"
    /\ FirstMatch(Split(doc), tasks[i].node.level, tasks[i].node.title) = 0

\* C13. Patch not found: when the read of a commit completes and no line
\* of the document matches the anchor's level and title, the commit ends
\* without a write, the document is untouched, and the tree (with the
\* anchor's title) and the selection are as they were.
C13_PatchNotFound ==
    [][\A i \in 1..MaxTasks :
          (/\ AnchorMissing(i)
           /\ lastEvent'.cmd = "store"
           /\ RenameRead(i, TRUE) \/ InsertRead(i, TRUE))
          => /\ Len(tasks') = Len(tasks) - 1
             /\ doc' = doc
             /\ root' = root
             /\ selectedSection' = selectedSection]_vars

\* the store rejects the read or the write commit i is waiting for
StoreRejects(i) ==
    /\ lastEvent'.cmd = "store"
    /\ \/ RenameRead(i, FALSE) \/ RenameWrite(i, FALSE)
       \/ InsertRead(i, FALSE) \/ InsertWrite(i, FALSE)
       \/ InsertRefresh(i, FALSE)

\* C14. Store failure: the step on which the store rejects a read or a
\* write of a commit ends that commit and leaves the tree, the sections,
\* the selection and the document as they were, and afterwards the input
\* is hidden and no anchor is held.
C14_StoreFailure ==
    [][\A i \in 1..MaxTasks :
          StoreRejects(i)
          => /\ root' = root
             /\ sectionHitboxes' = sectionHitboxes
             /\ selectedSection' = selectedSection
             /\ doc' = doc
             /\ Len(tasks') = Len(tasks) - 1
             /\ ~isEditingActive'
             /\ editStartNode' = NoNode]_vars

C14_Witness ==
    /\ lastEvent = Event("store", "write failed")
    /\ selectedSection # NoSection
    /\ doc \in {Join(d) : d \in InitDocs}
    /\ root = TreeOf(doc)

\* this step opens an edit session
SessionBegins ==
    /\ ~isEditingActive /\ isEditingActive'
    /\ CmdEditHeader \/ CmdCreateChild \/ CmdCreateSibling

\* C15. Anchor identity: on a step that opens a session while the selection
\* is section k of the layout, the anchor captured is node k of the tree,
\* the node section k was drawn for, with that node's level and title.
C15_AnchorIdentity ==
    [][\A k \in 1..Len(sectionHitboxes) :
          (SessionBegins /\ SectionsEqualTo(sectionHitboxes, selectedSection) = {k})
          => editStartNode' = RefTo(root, k)]_vars

\* C16. Selection validity: whenever no commit is suspended, so that every
\* event so far has been handled to its end, the selection is none or is
\* equal, in title and geometry, to exactly one section of the layout.
C16_SelectionValid ==
    tasks = <<>> =>
        \/ selectedSection = NoSection
        \/ Cardinality(SectionsEqualTo(sectionHitboxes, selectedSection)) = 1

-----------------------------------------------------------------------------
(* Properties of parseHeaders and of the layout (ParseSpec) *)

\* C17. Level invariant: at every point of the loop, and so in the tree
\* returned, the level of every child is strictly greater than the level
\* of its parent, the root having level 0.
C17_LevelInvariant ==
    /\ \A p \in DOMAIN result : \A a \in 1..Len(result[p]) :
           LevelOf(headers, result[p][a]) > LevelOf(headers, p)
    /\ pos = Len(headers) =>
           LET kids == buildHeaderHierarchy(headers)
           IN  \A p \in DOMAIN kids : \A a \in 1..Len(kids[p]) :
                   LevelOf(headers, kids[p][a]) > LevelOf(headers, p)

C17_Witness ==
    /\ pos = 4 /\ Len(headers) = 4
    /\ [i \in 1..4 |-> headers[i].level] = <<3, 1, 4, 2>>
    /\ result[0] = <<1, 2>> /\ result[2] = <<3, 4>>

\* what is left of line after its leading "#"
AfterMarker(line) == SubSeq(line, MarkerWidth(line) + 1, Len(line))

\* the line is a header line as C18 has it: 1 to 6 "#", then whitespace,
\* then text that is not empty
ClaimedHeaderLine(line) ==
    /\ MarkerWidth(line) \in 1..6
    /\ AfterMarker(line) # <<>>
    /\ IsSpace(AfterMarker(line)[1])
    /\ Trim(AfterMarker(line)) # <<>>

\* C18. Header line recognition: parseHeaders returns one node for a line
\* that starts with 1 to 6 "#" followed by whitespace and non-empty text,
\* its level the number of "#" and its title the rest of the line without
\* leading and trailing whitespace, and no node for any other line.
C18_HeaderLine ==
    pos = 1 =>
        headers = IF ClaimedHeaderLine(doc)
                  THEN << [level |-> MarkerWidth(doc),
                           title |-> Trim(AfterMarker(doc))] >>
                  ELSE <<>>

\* the header line of a node: level "#", a space, the title
HeaderLine(h) == Hashes(h.level) \o <<" ">> \o h.title

\* the text whose lines are the header lines of hs
TextOf(hs) == Join([i \in 1..Len(hs) |-> HeaderLine(hs[i])])

\* the nodes below node id, in pre-order
RECURSIVE PreOrder(_, _)
PreOrder(kids, id) ==
    LET RECURSIVE Over(_)
        Over(ks) == IF ks = <<>> THEN <<>>
                    ELSE <<Head(ks)>> \o PreOrder(kids, Head(ks))
                             \o Over(Tail(ks))
    IN  Over(kids[id])

\* C19. Parse round-trip: parsing the header lines of a header sequence
\* gives its headers and the tree the loop built; rendering that tree in
\* pre-order as header lines and parsing again gives the same nodes and
\* the same children lists.
C19_RoundTrip ==
    pos = Len(headers) =>
        LET first    == parseHeaders(TextOf(headers))
            order    == PreOrder(first.kids, 0)
            rendered == TextOf([k \in 1..Len(order) |-> first.nodes[order[k]]])
        IN  /\ first.nodes = headers
            /\ first.kids = result
            /\ parseHeaders(rendered) = first

C19_Witness ==
    /\ pos = 4 /\ Len(headers) = 4
    /\ [i \in 1..4 |-> headers[i].level] = <<2, 4, 1, 3>>
    /\ result[0] = <<1, 3>> /\ result[1] = <<2>> /\ result[3] = <<4>>
    /\ parseHeaders(TextOf(headers)).kids = result

\* the span of node id in the layout: the full circle for the root, the
\* span of its section for a header
SpanOf(id) ==
    IF id = 0 THEN [a0 |-> 0, a1 |-> TwoPi]
    ELSE [a0 |-> sectionHitboxes[id].startAngle,
          a1 |-> sectionHitboxes[id].endAngle]

\* C20. Angular partition: in the layout drawn for a tree every header has
\* one section, in document order, and for every node with k >= 1 children
\* and span [a0, a1) the j-th child's span is
\* [a0 + (j-1) * (a1-a0)/k, a0 + j * (a1-a0)/k): the spans of the children
\* are in document order, contiguous, disjoint, of equal width, and cover
\* the span of the node; the children of the root cover the full circle.
C20_AngularPartition ==
    (root.loaded /\ pos = Len(headers)) =>
        /\ Len(sectionHitboxes) = Len(root.nodes)
        /\ \A n \in 1..Len(root.nodes) :
               sectionHitboxes[n].title = root.nodes[n].title
        /\ \A p \in DOMAIN root.kids :
               LET ks == root.kids[p]
                   k  == Len(ks)
                   a0 == SpanOf(p).a0
                   a1 == SpanOf(p).a1
               IN  k >= 1 =>
                     /\ a0 < a1
                     /\ ((a1 - a0) \div k) * k = a1 - a0
                     /\ \A j \in 1..k :
                          /\ SpanOf(ks[j]).a0 = a0 + (j - 1) * ((a1 - a0) \div k)
                          /\ SpanOf(ks[j]).a1 = a0 + j * ((a1 - a0) \div k)
        /\ root.kids[0] # <<>> =>
               /\ SpanOf(root.kids[0][1]).a0 = 0
               /\ SpanOf(root.kids[0][Len(root.kids[0])]).a1 = TwoPi

C20_Witness ==
    /\ root.loaded /\ Len(headers) = 4
    /\ [i \in 1..4 |-> headers[i].level] = <<1, 2, 2, 1>>
    /\ sectionHitboxes[2].startAngle = 0 /\ sectionHitboxes[2].endAngle = 1260
    /\ sectionHitboxes[3].startAngle = 1260 /\ sectionHitboxes[3].endAngle = 2520
    /\ sectionHitboxes[4].startAngle = 2520 /\ sectionHitboxes[4].endAngle = TwoPi


-----------------------------------------------------------------------------
(* Properties of the layout and the navigation (NavSpec) *)

\* the tree parent of node id: the node whose children list holds it
ParentOf(tree, id) ==
    CHOOSE p \in DOMAIN tree.kids :
        \E j \in 1..Len(tree.kids[p]) : tree.kids[p][j] = id

\* the tree depth of node id: the root 0, its children 1
RECURSIVE DepthOf(_, _)
DepthOf(tree, id) ==
    IF id = 0 THEN 0 ELSE 1 + DepthOf(tree, ParentOf(tree, id))

\* C21. Radial bands: with radiusStep the step of the layout, the section
\* of a node at tree depth d (the children of the root are at depth 1) has
\* outerRadius = radiusStep * d and innerRadius = radiusStep * 0.5 when
\* d = 1, radiusStep * (d - 1) otherwise; so the first ring starts where the
\* disc of the root (radius radiusStep * 0.5) ends, and every section at
\* depth >= 2 starts where the section of its parent ends.
C21_RadialBands ==
    root.loaded =>
        LET step == RadiusStep(canvas, root)
        IN  /\ Len(sectionHitboxes) = Len(root.nodes)
            /\ \A n \in 1..Len(root.nodes) :
                   LET d == DepthOf(root, n)
                       s == sectionHitboxes[n]
                   IN  /\ s.outerRadius = step * d
                       /\ s.innerRadius = IF d = 1 THEN (step * 5) \div 10
                                          ELSE step * (d - 1)
                       /\ d = 1 =>
                              s.innerRadius = RootDiscRadius(canvas, root)
                       /\ d >= 2 =>
                              s.innerRadius =
                                  sectionHitboxes[ParentOf(root, n)].outerRadius

C21_Witness ==
    /\ root.loaded /\ Len(headers) = 3
    /\ [i \in 1..3 |-> headers[i].level] = <<1, 3, 4>>
    /\ canvas = [width |-> 100, height |-> 100]
    /\ [i \in 1..3 |-> sectionHitboxes[i].innerRadius] = <<5937, 11875, 23750>>
    /\ [i \in 1..3 |-> sectionHitboxes[i].outerRadius] = <<11875, 23750, 35625>>


\* the ids of the nodes below node id, parent before children, siblings in
\* the order of the children list
RECURSIVE Below(_, _)
Below(tree, id) ==
    LET RECURSIVE Each(_)
        Each(ks) == IF ks = <<>> THEN <<>>
                    ELSE <<Head(ks)>> \o Below(tree, Head(ks)) \o Each(Tail(ks))
    IN  Each(tree.kids[id])

\* C22. Section list: whenever a document is loaded and drawn, the section
\* list holds exactly one section for every node but the root, in pre-order
\* (a parent before its children, siblings in document order), each with
\* the title of its node; clicks, key moves and resizes redraw the list and
\* it never holds entries of an earlier frame.
C22_SectionList ==
    root.loaded =>
        LET order == Below(root, 0)
        IN  /\ Len(order) = Len(root.nodes)
            /\ {order[i] : i \in 1..Len(order)} = 1..Len(root.nodes)
            /\ Len(sectionHitboxes) = Len(order)
            /\ \A i \in 1..Len(order) :
                   /\ sectionHitboxes[i].title = root.nodes[order[i]].title
                   /\ sectionHitboxes[i].outerRadius =
                          RadiusStep(canvas, root) * DepthOf(root, order[i])

\* a tree with a nested node, redrawn after a click, a key move and a
\* resize
C22_Witness ==
    /\ root.loaded /\ Len(headers) = 4
    /\ [i \in 1..4 |-> headers[i].level] = <<2, 3, 1, 2>>
    /\ canvas = [width |-> 100, height |-> 400]
    /\ selectedSection = sectionHitboxes[3]
    /\ [i \in 1..4 |-> sectionHitboxes[i].title]
           = << <<"A">>, <<"B">>, <<"C">>, <<"D">> >>
    /\ [i \in 1..4 |-> sectionHitboxes[i].outerRadius]
           = <<63333, 126666, 63333, 126666>>


\* the number of edges on the longest path from the root to a leaf
EdgeDepth(tree) ==
    LET ds == {DepthOf(tree, n) : n \in 1..Len(tree.nodes)}
    IN  IF ds = {} THEN 0 ELSE CHOOSE d \in ds : \A e \in ds : e <= d

\* C23. Max depth: for a loaded tree with at least one header, the maxDepth
\* of the layout is the number of edges on the longest path from the root
\* to a leaf (1 for a tree with only top-level headers), radiusStep is the
\* largest usable radius divided by it, and so the outerRadius of the
\* deepest ring is the largest usable radius (up to the thousandths of a
\* pixel the division drops).
C23_MaxDepth ==
    (root.loaded /\ Len(root.nodes) > 0) =>
        LET maxDepth == EdgeDepth(root)
        IN  /\ findMaxDepth(root, 0) = maxDepth
            /\ RadiusStep(canvas, root) = MaxRadius(canvas) \div maxDepth
            /\ \A n \in 1..Len(root.nodes) :
                   DepthOf(root, n) = maxDepth =>
                       /\ sectionHitboxes[n].outerRadius <= MaxRadius(canvas)
                       /\ sectionHitboxes[n].outerRadius
                              > MaxRadius(canvas) - maxDepth


\* the least of two numbers
Min(a, b) == IF a < b THEN a ELSE b

\* C24. Sections fit the surface: on every canvas size, square or not, and
\* for every tree, the outerRadius of every section is at most half the
\* smaller side of the canvas.
C24_SectionsFit ==
    root.loaded =>
        \A k \in 1..Len(sectionHitboxes) :
            sectionHitboxes[k].outerRadius
                <= (Min(canvas.width, canvas.height) * 1000) \div 2


\* the click angle lies on the arc of the section
OnArc(section, angle) ==
    IF section.startAngle > section.endAngle
    THEN angle >= section.startAngle \/ angle <= section.endAngle
    ELSE section.startAngle <= angle /\ angle <= section.endAngle

\* the sections, by place in render order, that a click at p matches
Matching(p) ==
    { k \in 1..Len(sectionHitboxes) :
          /\ sectionHitboxes[k].innerRadius <= p.distance
          /\ p.distance <= sectionHitboxes[k].outerRadius
          /\ OnArc(sectionHitboxes[k], p.angle) }

\* C25. Hit test: for a click at distance r and angle a (0 <= a < 2*pi)
\* from the centre, the section handleCanvasClick makes the selection is the
\* first in render order with innerRadius <= r <= outerRadius and a on its
\* arc ([startAngle, endAngle], or a >= startAngle or a <= endAngle when
\* startAngle > endAngle); when no section matches, its loop finds none and
\* the handler leaves the selection empty.
C25_HitTest ==
    \A p \in ClickPoints \cup EdgePoints :
        /\ p.angle >= 0 /\ p.angle < TwoPi
        /\ IF Matching(p) = {} THEN firstHit(sectionHitboxes, p) = 0
           ELSE firstHit(sectionHitboxes, p) =
                    CHOOSE k \in Matching(p) : \A j \in Matching(p) : k <= j

\* an only child is selected, which no key reaches: a click did it
C25_Witness ==
    /\ root.loaded /\ Len(headers) = 2
    /\ [i \in 1..2 |-> headers[i].level] = <<1, 2>>
    /\ selectedSection = sectionHitboxes[2]


\* the point at the mid-angle and mid-radius of a section
MidPoint(section) ==
    [distance |-> (section.innerRadius + section.outerRadius) \div 2,
     angle |-> (section.startAngle + section.endAngle) \div 2]

\* C26. Hit-test inverse: for every section of the layout of any tree, a
\* click on the point at its mid-angle and mid-radius selects that very
\* section, not its parent, a child or a neighbour.
C26_HitTestInverse ==
    root.loaded =>
        \A k \in 1..Len(sectionHitboxes) :
            /\ MidPoint(sectionHitboxes[k]) \in ClickPoints
            /\ firstHit(sectionHitboxes, MidPoint(sectionHitboxes[k])) = k
            /\ \A j \in 1..Len(sectionHitboxes) :
                   Hit(sectionHitboxes[j], MidPoint(sectionHitboxes[k]))
                       => j = k

\* a section with a parent below it, a child above it and a neighbour in
\* the first ring is selected; it is an only child, which no key reaches
C26_Witness ==
    /\ root.loaded /\ Len(headers) = 4
    /\ [i \in 1..4 |-> headers[i].level] = <<1, 2, 3, 1>>
    /\ selectedSection = sectionHitboxes[2]
    /\ firstHit(sectionHitboxes, MidPoint(sectionHitboxes[2])) = 2


\* the places in render order of the sections that share the radii of the
\* section at place k, in ascending order
RingOf(k) ==
    LET same == { j \in 1..Len(sectionHitboxes) :
                      /\ sectionHitboxes[j].innerRadius
                             = sectionHitboxes[k].innerRadius
                      /\ sectionHitboxes[j].outerRadius
                             = sectionHitboxes[k].outerRadius }
        RECURSIVE Sorted(_)
        Sorted(S) == IF S = {} THEN <<>>
                     ELSE LET m == CHOOSE x \in S : \A y \in S : x <= y
                          IN  <<m>> \o Sorted(S \ {m})
    IN  Sorted(same)

\* the index in RingOf(k) at which k stands, from 0
IndexIn(k) == CHOOSE i \in 0..(Len(RingOf(k)) - 1) : RingOf(k)[i + 1] = k

\* the place selected after a move by delta along the ring of place k
RingMove(k, delta) ==
    RingOf(k)[((IndexIn(k) + delta + Len(RingOf(k))) % Len(RingOf(k))) + 1]

\* the place selected after the given number of right moves from place k
RECURSIVE RightMoves(_, _)
RightMoves(k, times) ==
    IF times = 0 THEN k ELSE RightMoves(RingMove(k, 1), times - 1)

\* the selection is a section of the current list
SelectionIn == { k \in 1..Len(sectionHitboxes) :
                     sectionHitboxes[k] = selectedSection }

\* C27. Sibling navigation wraps: when the selection is the section at
\* index i of the n sections that share its innerRadius and outerRadius (in
\* render order), the right key selects the one at index i+1 mod n and the
\* left key the one at index i-1 mod n; n right moves, or a right and then
\* a left move, lead back to the section, and with n = 1 both keys leave
\* the selection as it is.
C27_SiblingWrap ==
    [][(root.loaded /\ SelectionIn # {}) =>
           LET k == CHOOSE k \in SelectionIn : TRUE
               n == Len(RingOf(k))
           IN  /\ HandleKeyDown("ArrowRight") =>
                      selectedSection' = sectionHitboxes[RingMove(k, 1)]
               /\ HandleKeyDown("ArrowLeft") =>
                      selectedSection' = sectionHitboxes[RingMove(k, -1)]
               /\ n = 1 =>
                      \A key \in {"ArrowRight", "ArrowLeft"} :
                          keyMove(sectionHitboxes, selectedSection, key)
                              = Stay(selectedSection)
               /\ RightMoves(k, n) = k
               /\ RingMove(RingMove(k, 1), -1) = k]_vars

\* the right key has wrapped from the last of three first-level sections
\* to the first, across the child of the second
C27_Witness ==
    /\ root.loaded /\ Len(headers) = 4
    /\ [i \in 1..4 |-> headers[i].level] = <<1, 1, 2, 1>>
    /\ selectedSection = sectionHitboxes[1]
    /\ RingOf(1) = <<1, 2, 4>>


\* the sections of the children of the node at place k, in document order
ChildrenSections(k) ==
    [j \in 1..Len(root.kids[k]) |-> sectionHitboxes[root.kids[k][j]]]

\* C28. Descend candidates: when the selection is the section of a node
\* that has children, the candidates of a descend are exactly the sections
\* of all children of the node, and the descend key moves the selection to
\* one of them; that includes a node with a single child and the last
\* child of a node.
C28_DescendCandidates ==
    (root.loaded /\ SelectionIn # {}) =>
        LET k == CHOOSE k \in SelectionIn : TRUE
        IN  root.kids[k] # <<>> =>
                /\ childSections(sectionHitboxes, selectedSection)
                       = ChildrenSections(k)
                /\ \E j \in 1..Len(root.kids[k]) :
                       keyMove(sectionHitboxes, selectedSection, "ArrowUp")
                           = MoveTo(ChildrenSections(k)[j])


\* twice the difference between the mid-angles of two sections
MidDistance2(a, b) ==
    Abs((a.startAngle + a.endAngle) - (b.startAngle + b.endAngle))

\* C29. Descend picks the nearest child: when a descend has candidates, the
\* section it selects is a candidate whose mid-angle is at the least
\* absolute difference from the mid-angle of the current section (the
\* middle child of three, say), not just the first candidate.
C29_DescendNearest ==
    (root.loaded /\ SelectionIn # {}) =>
        LET candidates == childSections(sectionHitboxes, selectedSection)
            chosen == keyMove(sectionHitboxes, selectedSection, "ArrowUp")
        IN  Len(candidates) > 0 =>
                /\ chosen.redrawn
                /\ \E i \in 1..Len(candidates) : candidates[i] = chosen.section
                /\ \A i \in 1..Len(candidates) :
                       MidDistance2(chosen.section, selectedSection)
                           <= MidDistance2(candidates[i], selectedSection)


\* for the selected section, when it is at depth >= 2: one section passes
\* the ascend filter, the section of the tree parent, and the ascend key
\* selects it
AscendToParent ==
    (root.loaded /\ SelectionIn # {}) =>
        LET k == CHOOSE k \in SelectionIn : TRUE
        IN  DepthOf(root, k) >= 2 =>
                /\ parentSections(sectionHitboxes, selectedSection)
                       = <<sectionHitboxes[ParentOf(root, k)]>>
                /\ keyMove(sectionHitboxes, selectedSection, "ArrowDown")
                       = MoveTo(sectionHitboxes[ParentOf(root, k)])

\* for the selected section, when its node has children to descend to: the
\* descend key and then the ascend key lead back to it
DescendAscend ==
    (root.loaded /\ SelectionIn # {}) =>
        LET k == CHOOSE k \in SelectionIn : TRUE
            down == keyMove(sectionHitboxes, selectedSection, "ArrowUp")
        IN  root.kids[k] # <<>> =>
                keyMove(sectionHitboxes, down.section, "ArrowDown").section
                    = selectedSection

\* C30. Ascend selects the parent: for every section at depth >= 2 exactly
\* one section passes the ascend filter (outerRadius equal to the current
\* innerRadius, span containing the current span), the section of the
\* node's tree parent, and ascend selects it; consequently a descend from
\* the section of a node with children, followed by an ascend, returns to
\* that section.
C30_AscendParent == AscendToParent /\ DescendAscend


\* C31. Navigation entry point: with a document drawn, no selection and a
\* section list that is not empty, each of the four arrow keys (up, down,
\* left, right) selects the first section of the list.
C31_EntryPoint ==
    (root.loaded /\ selectedSection = NoSection /\ Len(sectionHitboxes) > 0)
        => \A key \in {"ArrowUp", "ArrowDown", "ArrowLeft", "ArrowRight"} :
               keyDown(sectionHitboxes, selectedSection, key)
                   = MoveTo(sectionHitboxes[1])


\* C32. Label threshold does not affect hit boxes: a section whose arc
\* length at its label radius is below the threshold gets no label, but it
\* is in the section list all the same, with its node's title, and a click
\* on it or a key move along its ring selects it as it would a labelled
\* one.
C32_UnlabelledSections ==
    root.loaded =>
        /\ Len(sectionHitboxes) = Len(root.nodes)
        /\ Len(sectionHitboxes) = Len(root.nodes) =>
               \A k \in 1..Len(root.nodes) :
                   ~labelDrawn(sectionHitboxes[k], RadiusStep(canvas, root)) =>
                       /\ arcLength(sectionHitboxes[k],
                                    RadiusStep(canvas, root))
                              < MIN_ARC_LENGTH * 1000
                       /\ sectionHitboxes[k].title = root.nodes[k].title
                       /\ firstHit(sectionHitboxes,
                                   MidPoint(sectionHitboxes[k])) = k
                       /\ Len(RingOf(k)) > 1 =>
                              keyDown(sectionHitboxes,
                                      sectionHitboxes[RingMove(k, -1)],
                                      "ArrowRight")
                                  = MoveTo(sectionHitboxes[k])

\* on a canvas of 100 by 100 pixels the second of three top-level sections,
\* too short for a label (arc length 32.3 pixels), is the selection
C32_Witness ==
    /\ root.loaded /\ Len(headers) = 3
    /\ [i \in 1..3 |-> headers[i].level] = <<1, 1, 1>>
    /\ canvas = [width |-> 100, height |-> 100]
    /\ ~labelDrawn(sectionHitboxes[2], RadiusStep(canvas, root))
    /\ arcLength(sectionHitboxes[2], RadiusStep(canvas, root)) \div 100 = 323
    /\ selectedSection = sectionHitboxes[2]


-----------------------------------------------------------------------------
(* Properties of the parser and the patcher together *)

\* C33. Parser/patcher agreement: for every document and every node that
\* parseHeaders returns for it, the patcher's search for the node's level
\* and title finds a line of the document; header lines with whitespace
\* after the title, or with a tab or several spaces after the marker,
\* included.
C33_ParserPatcherAgreement ==
    pos = 1 =>
        \A n \in 1..Len(headers) :
            FindHeaderLine(Split(doc), headers[n].level, headers[n].title)
                \in 0..(Len(Split(doc)) - 1)


\* the place a node of the old tree has in the new one, when one node was
\* put in right after node j
Shifted(x, j) == IF x <= j THEN x ELSE x + 1

\* C34. Insert-child keeps existing structure: the text a child insert on
\* anchor P hands to the store parses to the tree of the text read plus one
\* node with the entered title, which is a child of P, and every node that
\* was there before keeps its level, its title and its parent; that holds
\* also when the children P has skip a level (an H1 whose first child is an
\* H3).
C34_InsertChildKeepsTree ==
    [][\A i \in 1..MaxTasks :
          ReadDone(i, {"child"}) =>
              LET lines  == Split(doc)
                  n      == tasks[i].node
                  k      == FirstMatch(lines, n.level, n.title)
                  j      == HeaderCount(lines, k)
                  before == parseHeaders(doc)
                  after  == parseHeaders(tasks'[i].newContent)
              IN  /\ k # 0
                  /\ Len(after.nodes) = Len(before.nodes) + 1
                  /\ Len(after.nodes) = Len(before.nodes) + 1 =>
                        /\ after.nodes[j + 1].title = tasks[i].newTitle
                        /\ ParentOf(after, j + 1) = j
                        /\ \A x \in 1..Len(before.nodes) :
                              /\ after.nodes[Shifted(x, j)] = before.nodes[x]
                              /\ ParentOf(after, Shifted(x, j))
                                     = Shifted(ParentOf(before, x), j)]_vars


\* the ids of the nodes of the subtree of node id, the node included
RECURSIVE SubtreeOf(_, _)
SubtreeOf(tree, id) ==
    {id} \cup UNION {SubtreeOf(tree, tree.kids[id][c]) :
                         c \in 1..Len(tree.kids[id])}

\* the commit of PatchSpec, once it has written
Inserted(mode) ==
    pos = 1 /\ Len(tasks) = 1 /\ tasks[1].kind = mode

\* C35. Insert-sibling lands after the subtree: the text a sibling insert on
\* anchor N writes parses to the tree of the text read plus one node with
\* the entered title, which has N's parent and follows N directly among
\* that parent's children; N's subtree and every other node that was there
\* before keep level, title and parent.  That holds also when lines in N's
\* body start with "#" without being headers ("#tag", or seven or more
\* "#").
C35_InsertSiblingAfterSubtree ==
    Inserted("sibling") =>
        LET lines  == Split(tasks[1].content)
            n      == tasks[1].node
            k      == FirstMatch(lines, n.level, n.title)
            j      == HeaderCount(lines, k)
            before == parseHeaders(tasks[1].content)
            after  == parseHeaders(doc)
            last   == CHOOSE m \in SubtreeOf(before, j) :
                          \A x \in SubtreeOf(before, j) : x <= m
            p      == ParentOf(before, j)
        IN  /\ k # 0
            /\ Len(after.nodes) = Len(before.nodes) + 1
            /\ Len(after.nodes) = Len(before.nodes) + 1 =>
                  /\ after.nodes[last + 1].title = tasks[1].newTitle
                  /\ ParentOf(after, last + 1) = p
                  /\ \E c \in 1..(Len(after.kids[p]) - 1) :
                         /\ after.kids[p][c] = j
                         /\ after.kids[p][c + 1] = last + 1
                  /\ \A x \in 1..Len(before.nodes) :
                        /\ after.nodes[Shifted(x, last)] = before.nodes[x]
                        /\ ParentOf(after, Shifted(x, last))
                               = Shifted(ParentOf(before, x), last)


\* C36. Inserted headers are real headers: the header line an insert
\* writes has a marker of 1 to 6 "#", so after every insert that was
\* written, for an anchor of any level 1..6, child or sibling, the text
\* parses to exactly one node more than before, and that node has the
\* entered title.
C36_InsertedHeaderIsHeader ==
    (pos = 1 /\ Len(tasks) = 1) =>
        LET after == parseHeaders(doc).nodes
        IN  /\ tasks[1].node.level \in 1..6
            /\ tasks[1].level \in 1..6
            /\ Len(after) = Len(headers) + 1
            /\ \E x \in 1..Len(after) :
                   /\ after[x] = [level |-> tasks[1].level,
                                  title |-> tasks[1].newTitle]
                   /\ \A y \in 1..Len(headers) :
                          headers[y] = after[IF y < x THEN y ELSE y + 1]


-----------------------------------------------------------------------------
(* Properties of the edit sessions under concurrent commits (Spec) *)

\* C37. One edit per session: however many times the commit command is
\* invoked for one edit session, at most one header line is added to the
\* document.  Two suspended commits with the same session were issued
\* from the same edit session; once one of them has written its header
\* line (it awaits the refresh), the write of the other one adds no
\* further line.
C37_OneEditPerSession ==
    [][\A i, j \in 1..Len(tasks) :
          (/\ i # j
           /\ tasks[i].session = tasks[j].session
           /\ tasks[j].kind # "edit" /\ tasks[j].pc = "refresh"
           /\ WriteDone(i))
          => Len(Split(doc')) <= Len(Split(doc))]_vars


\* C38. A commit only closes its own session: while an edit session is
\* open and every suspended commit was issued from an earlier session
\* (the user cancelled it and began the open one before the store
\* answered), no answer of the store hides the input or clears the anchor
\* of the open session.
C38_CommitClosesOwnSession ==
    [][(/\ isEditingActive /\ editStartNode # NoNode
        /\ Len(tasks) > 0
        /\ \A i \in 1..Len(tasks) :
              /\ tasks[i].session # editingInput.opened
              /\ tasks[i].pc \in {"read", "write"}
        /\ lastEvent'.cmd = "store")
       => (isEditingActive' /\ editStartNode' # NoNode)]_vars


\* C39. Click during an edit: when the write of a rename is accepted
\* while its session is still open with the anchor it captured, and the
\* section selected by now has another title than that anchor (a click
\* moved the selection to a different header), the anchor's node takes
\* the new title and the title of the selected section stays as it was.
C39_ClickDuringEdit ==
    [][\A i \in 1..Len(tasks) :
          (/\ tasks[i].kind = "edit" /\ RenameWrite(i, TRUE)
           /\ isEditingActive /\ tasks[i].session = editingInput.opened
           /\ editStartNode # NoNode /\ tasks[i].node = editStartNode
           /\ selectedSection # NoSection
           /\ selectedSection.title # editStartNode.title)
          => /\ root'.nodes[editStartNode.idx].title = tasks[i].newTitle
             /\ selectedSection'.title = selectedSection.title]_vars


-----------------------------------------------------------------------------
(* Properties of the ancestor stack of buildHeaderHierarchy (ParseSpec) *)

\* C40. Ancestor stack never empties: at every point of the loop of
\* buildHeaderHierarchy, for every header list whose levels are all at
\* least 1, the stack is not empty and its bottom element is the
\* synthetic level-0 root, so the root was never popped, and every other
\* element is a header already visited.
C40_StackNeverEmpties ==
    (\A k \in 1..Len(headers) : headers[k].level >= 1) =>
        /\ Len(currentParents) >= 1
        /\ currentParents[1] = 0
        /\ \A k \in 2..Len(currentParents) : currentParents[k] \in 1..pos

\* the pop loop has removed every header above the root: a header of level
\* 1 was visited after a nested one and is alone on the root
C40_Witness ==
    /\ pos >= 3
    /\ headers[pos].level = 1 /\ headers[pos - 1].level > headers[pos - 2].level
    /\ currentParents = <<0, pos>>

=============================================================================
